--------------------------- MODULE ServerProcess ---------------------------
(***************************************************************************)
(* The life of an API process: the singletons that the lifespan of         *)
(* api/main.py sets up and tears down - the cached settings of config.py,  *)
(* the checkpointer of checkpointer.py, the chat model that get_chat_model *)
(* chooses - over failed startups, restarts in the same process            *)
(* (TestClient, conftest.py) and restarts of the process, with the pauses  *)
(* that each checkpoint path holds.                                        *)
(***************************************************************************)
EXTENDS Integers

CONSTANTS
    Apps,         \* applications whose runs pause for a reviewer
    Files,        \* checkpoint paths on disk
    Memory,       \* the path ":memory:"
    Installed,    \* provider packages (pip extras) that are installed
    MaxStartups,  \* bound: startups within one process
    MaxOpened,    \* bound: connections opened
    None

Paths     == Files \union {Memory}
Providers == {"openai", "anthropic"}

\* A key is absent, present but empty (as .env.example ships it), or a real one.
Keys     == {"absent", "blank", "real"}
Settings == [path : Paths, openai : Keys, anthropic : Keys]

\* An open connection, and the path it is open to.
Connections == [no : 1..MaxOpened, path : Paths]

ASSUME PathsAssumption     == Memory \notin Files
ASSUME NoneAssumption      == None \notin Paths \union Settings \union Connections \union Providers
ASSUME InstalledAssumption == Installed \subseteq Providers
ASSUME BoundsAssumption    == {MaxStartups, MaxOpened} \subseteq Nat

VARIABLES
    env,       \* the process environment and .env: what Settings() would read
    cached,    \* get_settings: the settings of lru_cache, or None
    stack,     \* _stack: the connection its ExitStack will close, or None
    saver,     \* _saver: the connection open_checkpointer hands out, or None
    opened,    \* connections opened so far, which numbers them
    chosen,    \* what get_chat_model chose at this startup, or None
    service,   \* app.state.service: the connection it runs on, or None
    phase,     \* how far the lifespan has come
    startups,  \* startups of this process
    held,      \* the pauses that each path holds
    answered   \* the pauses that clients were told of, by the path configured

vars == <<env, cached, stack, saver, opened, chosen, service, phase, startups, held,
          answered>>

singletons == <<cached, stack, saver, service>>

Phases == {"down", "configured", "opened", "serving"}

Init ==
    /\ env \in Settings
    /\ cached   = None
    /\ stack    = None
    /\ saver    = None
    /\ opened   = 0
    /\ chosen   = None
    /\ service  = None
    /\ phase    = "down"
    /\ startups = 0
    /\ held     = [p \in Paths |-> {}]
    /\ answered = [p \in Paths |-> {}]

-----------------------------------------------------------------------------
(* Startup, as far as the yield of the lifespan.                            *)

\* get_settings, from the cache if it can.
Configure ==
    /\ phase = "down"
    /\ startups < MaxStartups
    /\ startups' = startups + 1
    /\ cached'   = IF cached = None THEN env ELSE cached
    /\ chosen'   = None
    /\ phase'    = "configured"
    /\ UNCHANGED <<env, stack, saver, opened, service, held, answered>>

\* What only lives in the memory of connection c is gone once c is closed.
Without(c) == IF c # None /\ c.path = Memory THEN [held EXCEPT ![Memory] = {}] ELSE held

\* open_checkpointer: the saver that is open, whatever path is asked for.
ReuseSaver ==
    /\ phase = "configured"
    /\ saver # None
    /\ phase' = "opened"
    /\ UNCHANGED <<env, singletons, opened, chosen, startups, held, answered>>

Connection == [no |-> opened + 1, path |-> cached.path]

\* The ExitStack is replaced before setup() runs, which may fail and leave a
\* stack without a saver; a connection an older stack held is finalised.
OpenSaver ==
    /\ phase = "configured"
    /\ saver = None
    /\ opened < MaxOpened
    /\ opened' = opened + 1
    /\ stack'  = Connection
    /\ held'   = Without(stack)
    /\ \/ saver' = Connection /\ phase' = "opened"
       \/ saver' = None       /\ phase' = "down"
    /\ UNCHANGED <<env, cached, chosen, service, startups, answered>>

\* No directory, before anything is replaced, or no connection, when the new
\* ExitStack has nothing to close.
OpenFails ==
    /\ phase = "configured"
    /\ saver = None
    /\ phase' = "down"
    /\ \/ UNCHANGED <<stack, held>>
       \/ stack' = None /\ held' = Without(stack)
    /\ UNCHANGED <<env, cached, saver, opened, chosen, service, startups, answered>>

\* Settings.has_real_llm_provider goes by truth, and an empty SecretStr is false.
HasRealProvider(settings) == settings.openai = "real" \/ settings.anthropic = "real"

\* get_chat_model goes by "is not None".
ChatModelFor(settings) ==
    IF ~HasRealProvider(settings) THEN "mock"
    ELSE IF settings.openai # "absent" THEN "openai" ELSE "anthropic"

\* The factory raises without the package of its choice; what a client class does
\* about an empty key is its own business: it may raise or be built.
StartService ==
    /\ phase = "opened"
    /\ chosen' = ChatModelFor(cached)
    /\ \/ /\ chosen' \in Installed \union {"mock"}
          /\ service' = saver
          /\ phase'   = "serving"
       \/ /\ \/ chosen' \in Providers \ Installed
             \/ chosen' \in Providers /\ cached[chosen'] = "blank"
          /\ phase' = "down"
          /\ UNCHANGED service
    /\ UNCHANGED <<env, cached, stack, saver, opened, startups, held, answered>>

-----------------------------------------------------------------------------
(* Requests, shutdown and the end of the process.                           *)

\* A run pauses on the service's connection and its client is told.
Pause(a) ==
    /\ phase = "serving"
    /\ service = stack
    /\ held'     = [held EXCEPT ![service.path] = @ \union {a}]
    /\ answered' = [answered EXCEPT ![cached.path] = @ \union {a}]
    /\ UNCHANGED <<env, singletons, opened, chosen, phase, startups>>

X_CloseKeepsSaver ==
    /\ stack' = None
    /\ held'  = Without(stack)
    /\ UNCHANGED saver

\* close_checkpointer.
CloseCheckpointer ==
    /\ stack' = None
    /\ saver' = None
    /\ held'  = Without(stack)

\* The lifespan past its yield; app.state keeps the service.
Shutdown ==
    /\ phase = "serving"
    /\ phase' = "down"
    /\ CloseCheckpointer
    /\ UNCHANGED <<env, cached, opened, chosen, service, startups, answered>>

X_ResetKeepsCheckpointer ==
    /\ phase = "down"
    /\ cached' = None
    /\ UNCHANGED <<env, stack, saver, opened, chosen, service, phase, startups, held,
                   answered>>

\* Between two startups in one process, as conftest.py does it:
\* get_settings.cache_clear() and close_checkpointer().
Reset ==
    /\ phase = "down"
    /\ cached' = None
    /\ CloseCheckpointer
    /\ UNCHANGED <<env, opened, chosen, service, phase, startups, answered>>

\* The process ends, at any point, and its memory with it.
ProcessEnds ==
    /\ phase'    = "down"
    /\ cached'   = None
    /\ stack'    = None
    /\ saver'    = None
    /\ service'  = None
    /\ chosen'   = None
    /\ startups' = 0
    /\ held'     = Without(stack)
    /\ UNCHANGED <<env, opened, answered>>

\* An operator or a test sets other variables, between two startups.
ChangeEnvironment ==
    /\ phase = "down"
    /\ env' \in Settings
    /\ UNCHANGED <<singletons, opened, chosen, phase, startups, held, answered>>

Next ==
    \/ Configure \/ ReuseSaver \/ OpenSaver \/ OpenFails \/ StartService
    \/ \E a \in Apps : Pause(a)
    \/ Shutdown \/ Reset \/ ProcessEnds \/ ChangeEnvironment

Spec == Init /\ [][Next]_vars

-----------------------------------------------------------------------------
\* Every variable has its type, and a saver is handed out only while the stack
\* still has to close it.
ServerTypeOK ==
    /\ env \in Settings
    /\ cached \in Settings \union {None}
    /\ {stack, saver, service} \subseteq Connections \union {None}
    /\ opened \in 0..MaxOpened
    /\ chosen \in Providers \union {"mock", None}
    /\ phase \in Phases
    /\ startups \in 0..MaxStartups
    /\ {held, answered} \subseteq [Paths -> SUBSET Apps]
    /\ saver # None => saver = stack

\* A process that serves runs on the connection that is open, never on one that
\* an earlier shutdown of the same process has closed (checkpointer.py: one
\* connection, "opened once at FastAPI startup").
ServesOpenStore == phase = "serving" => service # None /\ service = stack

\* A pause that clients were told of is found by every later process configured
\* for the same file, over shutdowns, failed startups and restarts: no service
\* ever ran on another store than its settings name (checkpointer.py: the pause
\* must "survive an API server restart").
PausesAreFound ==
    phase = "serving" /\ cached.path \in Files =>
        answered[cached.path] \subseteq held[service.path]

-----------------------------------------------------------------------------
\* "Setting either key switches the factory [...] to the corresponding real
\* provider" (.env.example): the provider chosen is one whose key is set.
ChosenProviderHasKey == chosen \in Providers /\ cached # None => cached[chosen] = "real"

=============================================================================
