----------------------------- MODULE Redaction -----------------------------
(***************************************************************************)
(* infrastructure/pii_redaction.py: redact_mapping on the nested details   *)
(* of a log line, against a definition of what it hides that does not      *)
(* recurse: where redaction goes, and where it does not.  A text is the    *)
(* number of spots in it that match one of the patterns, which are not     *)
(* modelled themselves; a key is masked by its name.                       *)
(***************************************************************************)
EXTENDS Integers, Sequences

CONSTANTS
    SensitiveKeys,  \* SENSITIVE_KEYS, the names in lower case
    Lower,          \* str.lower, on the keys of the instance
    ExtraKeys,      \* values of extra_sensitive_keys
    MaxDepth        \* bound: how deep details are nested

ASSUME MaxDepthAssumption == MaxDepth \in Nat \ {0}

Keys == DOMAIN Lower

VARIABLES
    payload,  \* the details a node logs, from the inside out
    extra     \* the extra_sensitive_keys it is redacted with

vars == <<payload, extra>>

-----------------------------------------------------------------------------
(* Values, nested at most MaxDepth deep.                                    *)

Number         == [kind |-> "number"]
Mask           == [kind |-> "mask"]
Text(n)        == [kind |-> "text", matches |-> n]
Item(k, value) == [key |-> k, value |-> value]
Dict(items)    == [kind |-> "dict", items |-> items]
List(items)    == [kind |-> "list", items |-> items]

Scalars       == {Number, Mask} \union [kind : {"text"}, matches : Nat]
Dicts(values) == [kind : {"dict"}, items : Seq([key : Keys, value : values])]
Lists(values) == [kind : {"list"}, items : Seq(values)]

\* One level more than the values given.
Deeper(values) == Scalars \union Dicts(values) \union Lists(values)

Values[n \in 0..MaxDepth] == IF n = 0 THEN Scalars ELSE Deeper(Values[n - 1])

Details  == Values[MaxDepth]
Mappings == {value \in Details : value.kind = "dict"}

-----------------------------------------------------------------------------
(* What the code does with them.                                            *)

\* redact_text, which is taken to leave no match: what the patterns are, the order
\* they are applied in and what one makes of the mask of another are left out.
RedactText(value) == Text(0)

IsSensitive(key, more) == Lower[key] \in SensitiveKeys \union more

X_RedactNestedForgetsExtra(redact, value, more) ==
    CASE value.kind = "dict" -> redact[value][{}]
      [] value.kind = "text" -> RedactText(value)
      [] OTHER               -> value

\* A member of a list: a dict or a text, and anything else as it is.
RedactMember(redact, value, more) ==
    CASE value.kind = "dict" -> redact[value][more]
      [] value.kind = "text" -> RedactText(value)
      [] OTHER               -> value

\* The value of an item of a dict.
RedactValue(redact, key, value, more) ==
    IF IsSensitive(key, more) THEN Mask
    ELSE IF value.kind = "list"
    THEN List([i \in DOMAIN value.items |-> RedactMember(redact, value.items[i], more)])
    ELSE RedactMember(redact, value, more)

RedactItem(redact, item, more) ==
    Item(item.key, RedactValue(redact, item.key, item.value, more))

RedactMapping[dict \in Mappings] ==
    [more \in ExtraKeys |->
        Dict([i \in DOMAIN dict.items |-> RedactItem(RedactMapping, dict.items[i], more)])]

-----------------------------------------------------------------------------
(* Details of every shape, one level at a time.                             *)

Init ==
    /\ payload \in {Number, Text(2), Dict(<<>>), List(<<>>)}
    /\ extra \in ExtraKeys

PutInDict ==
    \E key \in Keys :
        \/ payload' = Dict(<<Item(key, payload)>>)
        \/ \E other \in Keys \ {key} :
               payload' = Dict(<<Item(key, payload), Item(other, Text(1))>>)

PutInList == payload' \in {List(<<payload>>), List(<<Text(1), payload>>)}

Next == (PutInDict \/ PutInList) /\ payload' \in Details /\ UNCHANGED extra

Spec == Init /\ [][Next]_vars

-----------------------------------------------------------------------------
(* Where the values of a payload are.                                       *)

IsNested(value) == value.kind \in {"dict", "list"} /\ value.items # <<>>

Part(value, i) == IF value.kind = "dict" THEN value.items[i].value ELSE value.items[i]

\* One step into a value: to a key, or to a place in a list.
Into(value, i) ==
    IF value.kind = "dict" THEN [key |-> value.items[i].key, at |-> 0] ELSE [key |-> "member", at |-> i]

\* A leaf of the i-th part of a value.
Under(value, i, leaf) == [path |-> <<Into(value, i)>> \o leaf.path, value |-> leaf.value]

\* Every leaf with the path to it.
Leaves[value \in Details] ==
    IF IsNested(value)
    THEN UNION {{Under(value, i, leaf) : leaf \in Leaves[Part(value, i)]} : i \in DOMAIN value.items}
    ELSE {[path |-> <<>>, value |-> value]}

InList(path, i) == path[i].at > 0

\* The list in a list after which the code goes no further.
OutOfReach(path, i) == \E j \in 2..i : InList(path, j) /\ InList(path, j - 1)

MaskedAt(path, i, more) ==
    ~InList(path, i) /\ IsSensitive(path[i].key, more) /\ ~OutOfReach(path, i)

\* What is to become of a leaf, by its path alone.
Redacted(leaf, more) ==
    LET path  == leaf.path
        masks == {i \in 1..Len(path) : MaskedAt(path, i, more)}
        first == CHOOSE i \in masks : \A j \in masks : i <= j
    IN  IF masks # {} THEN [path |-> SubSeq(path, 1, first), value |-> Mask]
        ELSE IF leaf.value.kind = "text" /\ ~OutOfReach(path, Len(path))
        THEN [path |-> path, value |-> Text(0)]
        ELSE leaf

\* Redaction hides what stands under a sensitive key, in whatever case and at
\* whatever depth, and every matching spot of a text, except inside a list that
\* is itself in a list, and it changes nothing else: no amount is lost and no
\* key is dropped (redact_mapping, against a definition by paths).
HidesByPath ==
    payload.kind = "dict" =>
        Leaves[RedactMapping[payload][extra]] = {Redacted(leaf, extra) : leaf \in Leaves[payload]}

=============================================================================
