------------------------ MODULE ServerProcess_proofs ------------------------
(***************************************************************************)
(* Proofs about ServerProcess, for any paths, installed packages and       *)
(* number of startups.                                                     *)
(***************************************************************************)
EXTENDS ServerProcess, TLAPS

\* The saver that is open belongs to the settings in the cache, from the startup
\* that opened it until both are dropped, and a pause is held where it was
\* answered.
ServerInv ==
    /\ ServerTypeOK
    /\ phase # "down" => cached # None
    /\ saver # None => cached # None /\ saver.path = cached.path
    /\ phase \in {"opened", "serving"} => saver # None
    /\ phase = "serving" => service = saver
    /\ \A p \in Files : answered[p] \subseteq held[p]

\* Closing a connection takes nothing from a file.
LEMMA FilesAreKept ==
    ASSUME ServerInv, NEW c
    PROVE  /\ Without(c) \in [Paths -> SUBSET Apps]
           /\ \A p \in Files : Without(c)[p] = held[p]
  BY PathsAssumption DEF ServerInv, ServerTypeOK, Without, Paths

\* A new connection is one, and to the path of the settings.
LEMMA NewConnection ==
    ASSUME ServerInv, cached # None, opened < MaxOpened
    PROVE  Connection \in Connections /\ Connection.path = cached.path
  BY BoundsAssumption DEF ServerInv, ServerTypeOK, Connection, Connections, Settings

\* ServerInv holds at the start and survives every startup, failed or not, every
\* shutdown, every reset and every end of the process.
THEOREM ServerInvariant == Spec => []ServerInv
<1>1. Init => ServerInv
  BY BoundsAssumption, PathsAssumption, NoneAssumption
  DEF Init, ServerInv, ServerTypeOK, Phases, Settings, Connections
<1>2. ServerInv /\ [Next]_vars => ServerInv'
  <2> SUFFICES ASSUME ServerInv, [Next]_vars PROVE ServerInv'
    OBVIOUS
  <2> USE BoundsAssumption, PathsAssumption, NoneAssumption DEF ServerInv, ServerTypeOK, Phases
  <2>1. CASE Configure
    BY <2>1 DEF Configure
  <2>2. CASE ReuseSaver
    BY <2>2 DEF ReuseSaver, singletons
  <2>3. CASE OpenSaver
    <3>1. held' \in [Paths -> SUBSET Apps] /\ \A p \in Files : held'[p] = held[p]
      BY <2>3, FilesAreKept DEF OpenSaver
    <3>2. Connection \in Connections /\ Connection.path = cached.path
      BY <2>3, NewConnection DEF OpenSaver
    <3>3. Connection # None
      BY <3>2, NoneAssumption
    <3> QED
      BY <2>3, <3>1, <3>2, <3>3 DEF OpenSaver
  <2>4. CASE OpenFails
    BY <2>4, FilesAreKept DEF OpenFails
  <2>5. CASE StartService
    <3>1. chosen' \in Providers \union {"mock", None}
      BY <2>5 DEF StartService, ChatModelFor, Providers
    <3>2. CASE phase' = "serving" /\ service' = saver
      BY <2>5, <3>1, <3>2 DEF StartService
    <3>3. CASE phase' = "down" /\ UNCHANGED service
      BY <2>5, <3>1, <3>3 DEF StartService
    <3> QED
      BY <2>5, <3>2, <3>3 DEF StartService
  <2>6. ASSUME NEW a \in Apps, Pause(a) PROVE ServerInv'
    BY <2>6 DEF Pause, singletons, Connections, Settings, Paths
  <2>7. CASE Shutdown
    BY <2>7, FilesAreKept DEF Shutdown, CloseCheckpointer
  <2>8. CASE Reset
    BY <2>8, FilesAreKept DEF Reset, CloseCheckpointer
  <2>9. CASE ProcessEnds
    BY <2>9, FilesAreKept DEF ProcessEnds
  <2>10. CASE ChangeEnvironment
    BY <2>10 DEF ChangeEnvironment, singletons
  <2>11. CASE UNCHANGED vars
    BY <2>11 DEF vars
  <2> QED
    BY <2>1, <2>2, <2>3, <2>4, <2>5, <2>6, <2>7, <2>8, <2>9, <2>10, <2>11 DEF Next
<1> QED
  BY <1>1, <1>2, PTL DEF Spec

\* A process that serves runs on the connection that is open.
THEOREM ServesOpenStoreCorrect == Spec => []ServesOpenStore
<1>1. ServerInv => ServesOpenStore
  BY DEF ServerInv, ServerTypeOK, ServesOpenStore
<1> QED
  BY <1>1, ServerInvariant, PTL

\* A pause that a client was told of is found by every later process configured
\* for the same file.
THEOREM PausesAreFoundCorrect == Spec => []PausesAreFound
<1>1. ServerInv => PausesAreFound
  BY DEF ServerInv, ServerTypeOK, PausesAreFound
<1> QED
  BY <1>1, ServerInvariant, PTL

\* Every variable keeps its type, and no saver outlives the stack that closes it.
THEOREM ServerTypeCorrect == Spec => []ServerTypeOK
<1>1. ServerInv => ServerTypeOK
  BY DEF ServerInv
<1> QED
  BY <1>1, ServerInvariant, PTL

-----------------------------------------------------------------------------
(* The provider.                                                            *)

\* OPENAI_API_KEY is set or missing, never empty.
NoBlankOpenAIKey == env.openai # "blank"

\* The choice of this startup is that of the settings it read.
ChoiceInv ==
    /\ cached # None => cached \in Settings /\ cached.openai # "blank"
    /\ cached # None /\ chosen # None => chosen = ChatModelFor(cached)

LEMMA InitChoice == Init => ChoiceInv
BY DEF Init, ChoiceInv

LEMMA StepChoice ==
    ServerInv /\ NoBlankOpenAIKey /\ ChoiceInv /\ [Next]_vars => ChoiceInv'
<1> SUFFICES ASSUME ServerInv, NoBlankOpenAIKey, ChoiceInv, [Next]_vars PROVE ChoiceInv'
  OBVIOUS
<1> USE DEF ChoiceInv
<1>1. CASE Configure
  BY <1>1 DEF Configure, NoBlankOpenAIKey, ServerInv, ServerTypeOK
<1>2. CASE ReuseSaver \/ OpenSaver \/ OpenFails
  BY <1>2 DEF ReuseSaver, OpenSaver, OpenFails, singletons
<1>3. CASE StartService
  BY <1>3 DEF StartService
<1>4. ASSUME NEW a \in Apps, Pause(a) PROVE ChoiceInv'
  BY <1>4 DEF Pause, singletons
<1>5. CASE Shutdown \/ Reset \/ ProcessEnds
  BY <1>5 DEF Shutdown, Reset, ProcessEnds
<1>6. CASE ChangeEnvironment
  BY <1>6 DEF ChangeEnvironment, singletons
<1>7. CASE UNCHANGED vars
  BY <1>7 DEF vars
<1> QED
  BY <1>1, <1>2, <1>3, <1>4, <1>5, <1>6, <1>7 DEF Next

\* The provider chosen is one whose key is set, as .env.example says, whenever
\* OPENAI_API_KEY is not present and empty: an empty ANTHROPIC_API_KEY, failed
\* startups and cached settings do no harm (get_chat_model).
THEOREM ChosenProviderHasKeyCorrect == Spec /\ []NoBlankOpenAIKey => []ChosenProviderHasKey
<1>1. ChoiceInv => ChosenProviderHasKey
  <2> SUFFICES ASSUME ChoiceInv, chosen \in Providers, cached # None, chosen # None
               PROVE  cached[chosen] = "real"
    BY NoneAssumption DEF ChosenProviderHasKey
  <2>1. cached \in Settings /\ cached.openai # "blank" /\ chosen = ChatModelFor(cached)
    BY DEF ChoiceInv
  <2> QED
    BY <2>1 DEF ChatModelFor, HasRealProvider, Providers, Settings, Keys
<1> QED
  BY <1>1, InitChoice, StepChoice, ServerInvariant, PTL DEF Spec

=============================================================================
