----------------------------- MODULE SessionServer ----------------------------
(* The requests of server.Handler on the sessions of SessionManager: a       *)
(* session is created, given its constraints one by one and started by one   *)
(* request; others add constraints, or ask how it stands, from threads of    *)
(* their own, while the session's worker runs the engine (sessions._run).    *)
(* The stream of events is SessionStream, the run itself OmniQEngine.        *)
EXTENDS Naturals, Sequences

CONSTANTS
  Handlers,     \* threads of the ThreadingHTTPServer
  SessionIds,   \* what uuid4 may give
  Bodies,       \* bodies of POST /sessions: [json, goal, profile, spoken, listed]
  Posted,       \* constraints a body may name, or a request of its own
  Permissible,   \* those validate_operator_constraint lets through
  Profiles,     \* the profiles that load
  Environments, \* what OMNIQ_UI_RUNTIME and the others may be set to
  MaxAsked,     \* bound: requests
  Nowhere       \* no session, no profile, no engine

(* What engine a session may have, and what is kept of one (OmniQSession).   *)
Engines == [world : {"mock", "profile", "intel"}, reasoner : {"rules", "mock", "omni"},
            scheduled : BOOLEAN, profile : Profiles \cup {Nowhere}]
Stored == [body : Bodies, engine : Engines, status : {"queued", "running", "finished", "failed"},
           queue : SUBSET Posted, named : SUBSET Posted, receipt : BOOLEAN, error : BOOLEAN,
           worker : {"none", "begin", "loop", "finishing", "failing", "over"}]

ASSUME ServerAssumption ==
  /\ Permissible \subseteq Posted /\ Nowhere \notin SessionIds
  /\ Nowhere \notin Stored /\ Nowhere \notin Engines
  /\ Bodies \subseteq [json : BOOLEAN, goal : {"blank", "text"}, profile : Profiles \cup {"other", Nowhere},
                       spoken : Seq(Posted), listed : Seq(Posted)]
  /\ MaxAsked \in Nat

VARIABLES
  setting,   \* the environment the server runs in
  sessions,  \* _sessions: per id, Nowhere or what is Stored
  requests,  \* per thread, what it is in the middle of: [at, id, left, view]
  told,      \* every answer given: [code, id, view]
  asked
serving == <<setting, sessions, requests, told, asked>>

(* -------------------------- the engine of a session ---------------------- *)
(* _configured_runtime: what is not an alias is kept, and known to nobody.   *)
Runtime == IF setting.runtime \in {"", "mock"} THEN "mock"
           ELSE IF setting.runtime \in {"intel", "intel-sim", "intel_sim"} THEN "intel" ELSE "unknown"

(* _planner_from_env and its like: rules, or a reasoner with rules behind    *)
(* it, which has to have its checkpoint and receipt.                         *)
Reasoner == IF setting.reasoner \in {"", "0", "off", "rule"} THEN "rules"
            ELSE IF setting.reasoner = "mock" THEN "mock"
            ELSE IF setting.reasoner = "omni" /\ setting.checkpoint THEN "omni" ELSE Nowhere

(* _intel_engine_factory: the planner is scheduled, the simulator has to be  *)
(* installed.                                                                *)
IntelEngine ==
  IF ~setting.simulator \/ Reasoner = Nowhere THEN Nowhere
  ELSE [world |-> "intel", reasoner |-> Reasoner, scheduled |-> TRUE, profile |-> Nowhere]
MockEngine(profile) ==
  IF Reasoner = Nowhere THEN Nowhere
  ELSE [world |-> IF profile = Nowhere THEN "mock" ELSE "profile", reasoner |-> Reasoner,
        scheduled |-> FALSE, profile |-> profile]

(* _ui_engine_factory: an unknown runtime or profile is a ValueError.        *)
EngineFor(profile) ==
  IF profile \notin Profiles \cup {Nowhere} THEN Nowhere
  ELSE IF Runtime = "mock" THEN MockEngine(profile)
  ELSE IF Runtime = "intel" /\ IntelEngine # Nowhere THEN [IntelEngine EXCEPT !.profile = profile]
  ELSE Nowhere

(* _health_payload *)
Healthy == Runtime \in {"mock", "intel"}

(* ------------------------------- requests -------------------------------- *)
Free == [at |-> "free", id |-> Nowhere, left |-> <<>>, view |-> Nowhere]
Unseen == [receipt |-> FALSE, status |-> "unseen", error |-> FALSE]
Respond(t, code, id, view) ==
  /\ told' = told \cup {[code |-> code, id |-> id, view |-> view]}
  /\ requests' = [requests EXCEPT ![t] = Free]
Arrives(t) == requests[t] = Free /\ asked < MaxAsked /\ asked' = asked + 1
(* An id is random: only who was told of a session can name it.              *)
Named(id) == \E r \in told : r.id = id
Exists(id) == sessions[id] # Nowhere

(* GET /health, and a body that cannot be read, or asks for what there is    *)
(* not: nothing comes of it.                                                 *)
Health(t) ==
  /\ Arrives(t)
  /\ Respond(t, IF Healthy THEN 200 ELSE 503, Nowhere, Nowhere)
  /\ UNCHANGED <<setting, sessions>>
Malformed(body) == ~body.json \/ body.goal = "blank"
RefuseSession(t, body) ==
  /\ Arrives(t)
  /\ Malformed(body) \/ EngineFor(body.profile) = Nowhere
  /\ Respond(t, 400, Nowhere, Nowhere)
  /\ UNCHANGED <<setting, sessions>>

(* _create_session, up to SessionManager.create: what the goal says comes    *)
(* before what the body lists.                                               *)
CreateSession(t, body, id) ==
  /\ Arrives(t) /\ ~Exists(id)
  /\ ~Malformed(body) /\ EngineFor(body.profile) # Nowhere
  /\ sessions' = [sessions EXCEPT ![id] =
                   [body |-> body, engine |-> EngineFor(body.profile), status |-> "queued", queue |-> {},
                    named |-> {}, receipt |-> FALSE, error |-> FALSE, worker |-> "none"]]
  /\ requests' = [requests EXCEPT ![t] = [at |-> "adding", id |-> id, left |-> body.spoken \o body.listed,
                                          view |-> Unseen]]
  /\ UNCHANGED <<setting, told>>

(* SessionManager.add_constraint, under the manager's lock.                  *)
TakesConstraints(id) == sessions[id].status \in {"queued", "running"}
Queued(id, c) == [sessions EXCEPT ![id].queue = @ \cup {c}]

\* Mutant: a constraint that is refused is left out, and the session goes on.
SkipRefused(t) ==
  /\ requests[t].at = "adding" /\ requests[t].left # <<>>
  /\ sessions' = IF Head(requests[t].left) \in Permissible
                 THEN Queued(requests[t].id, Head(requests[t].left)) ELSE sessions
  /\ requests' = [requests EXCEPT ![t].left = Tail(@)]
  /\ UNCHANGED <<setting, told, asked>>
(* The first that is refused ends the request, and leaves the session as it  *)
(* is, in the queue; its id is in the answer.                                *)
AddNext(t) ==
  /\ requests[t].at = "adding" /\ requests[t].left # <<>>
  /\ LET id == requests[t].id
         c == Head(requests[t].left)
     IN  IF TakesConstraints(id) /\ c \in Permissible
         THEN /\ sessions' = Queued(id, c)
              /\ requests' = [requests EXCEPT ![t].left = Tail(@)]
              /\ UNCHANGED told
         ELSE Respond(t, 400, id, Nowhere) /\ UNCHANGED sessions
  /\ UNCHANGED <<setting, asked>>

(* SessionManager.start *)
StartSession(t) ==
  /\ requests[t].at = "adding" /\ requests[t].left = <<>>
  /\ LET id == requests[t].id
     IN  IF sessions[id].status = "queued"
         THEN /\ sessions' = [sessions EXCEPT ![id].status = "running", ![id].worker = "begin"]
              /\ requests' = [requests EXCEPT ![t].at = "summary"]
              /\ UNCHANGED told
         ELSE Respond(t, 400, id, Nowhere) /\ UNCHANGED sessions
  /\ UNCHANGED <<setting, asked>>

(* POST /sessions/<id>/constraints *)
PostConstraint(t, id, c) ==
  /\ Arrives(t) /\ Named(id)
  /\ IF Exists(id) /\ TakesConstraints(id) /\ c \in Permissible
     THEN /\ sessions' = Queued(id, c)
          /\ requests' = [requests EXCEPT ![t] = [at |-> "summary", id |-> id, left |-> <<>>, view |-> Unseen]]
          /\ UNCHANGED told
     ELSE Respond(t, 400, id, Nowhere) /\ UNCHANGED sessions
  /\ UNCHANGED setting

(* GET /sessions/<id> and its receipt, which is there or not yet.            *)
AskSummary(t, id) ==
  /\ Arrives(t) /\ Named(id)
  /\ requests' = [requests EXCEPT ![t] = [at |-> "summary", id |-> id, left |-> <<>>, view |-> Unseen]]
  /\ UNCHANGED <<setting, sessions, told>>
AskReceipt(t, id) ==
  /\ Arrives(t) /\ Named(id)
  /\ Respond(t, IF sessions[id].receipt THEN 200 ELSE 409, id, Nowhere)
  /\ UNCHANGED <<setting, sessions>>

(* SessionManager.summary reads, without the lock, first the receipt, then   *)
(* the status, then the error.                                               *)
See(t, from, to, view) ==
  /\ requests[t].at = from
  /\ requests' = [requests EXCEPT ![t].at = to, ![t].view = view]
  /\ UNCHANGED <<setting, sessions, told, asked>>
SeeReceipt(t) == See(t, "summary", "status", [requests[t].view EXCEPT !.receipt = sessions[requests[t].id].receipt])
SeeStatus(t) == See(t, "status", "error", [requests[t].view EXCEPT !.status = sessions[requests[t].id].status])
SeeError(t) ==
  /\ requests[t].at = "error"
  /\ Respond(t, 202, requests[t].id, [requests[t].view EXCEPT !.error = sessions[requests[t].id].error])
  /\ UNCHANGED <<setting, sessions, asked>>

(* ------------------------------ the worker ------------------------------- *)
WorkerStep(id, from, to, session) ==
  /\ Exists(id) /\ sessions[id].worker = from
  /\ sessions' = [sessions EXCEPT ![id] = [session EXCEPT !.worker = to]]
  /\ UNCHANGED <<setting, requests, told, asked>>

(* engine.run: the run's identity names what is queued; what is queued is    *)
(* applied, then and on every turn of the loop.                              *)
NameRun(id) == WorkerStep(id, "begin", "loop", [sessions[id] EXCEPT !.named = @ \cup sessions[id].queue])
TakeQueued(id) ==
  sessions[id] # Nowhere /\ sessions[id].queue # {}
    /\ WorkerStep(id, "loop", "loop", [sessions[id] EXCEPT !.queue = {}])

(* _run: the receipt, then the status; or the status, then the error.        *)
\* Mutant: the status comes first, and the receipt with it or not.
FinishBeforeReceipt(id) == WorkerStep(id, "loop", "finishing", [sessions[id] EXCEPT !.status = "finished"])
GetReceipt(id) == WorkerStep(id, "loop", "finishing", [sessions[id] EXCEPT !.receipt = TRUE])
FinishSession(id) == WorkerStep(id, "finishing", "over", [sessions[id] EXCEPT !.status = "finished"])
FailSession(id) == \E from \in {"begin", "loop"} :
                     WorkerStep(id, from, "failing", [sessions[id] EXCEPT !.status = "failed"])
StoreFailure(id) == WorkerStep(id, "failing", "over", [sessions[id] EXCEPT !.error = TRUE])
Works(id) == \/ NameRun(id) \/ TakeQueued(id) \/ GetReceipt(id) \/ FinishSession(id)
             \/ FailSession(id) \/ StoreFailure(id)

ServerInit ==
  /\ setting \in Environments
  /\ sessions = [id \in SessionIds |-> Nowhere]
  /\ requests = [t \in Handlers |-> Free]
  /\ told = {} /\ asked = 0
Creates(t) == \E body \in Bodies : RefuseSession(t, body) \/ \E id \in SessionIds : CreateSession(t, body, id)
Asks(t) == \E id \in SessionIds : AskSummary(t, id) \/ AskReceipt(t, id) \/ \E c \in Posted : PostConstraint(t, id, c)
Serves(t) == Health(t) \/ Creates(t) \/ AddNext(t) \/ StartSession(t) \/ Asks(t)
             \/ SeeReceipt(t) \/ SeeStatus(t) \/ SeeError(t)
ServerNext == (\E t \in Handlers : Serves(t)) \/ (\E id \in SessionIds : Works(id))
ServerSpec == ServerInit /\ [][ServerNext]_serving

(* ------------------------------- properties ------------------------------ *)
(* A run is under everything its body asked for, spoken or listed, from its  *)
(* identity on; one that asked for what cannot be is never started, though   *)
(* its session exists and takes further constraints (_create_session).       *)
AskedFor(s) == {s.body.spoken[i] : i \in DOMAIN s.body.spoken} \cup {s.body.listed[i] : i \in DOMAIN s.body.listed}
RunsAsPosted == \A id \in SessionIds : Exists(id) /\ sessions[id].worker # "none" =>
  /\ AskedFor(sessions[id]) \subseteq Permissible
  /\ AskedFor(sessions[id]) \subseteq sessions[id].named \cup sessions[id].queue
  /\ sessions[id].worker = "loop" => AskedFor(sessions[id]) \subseteq sessions[id].named

(* Who is told that a session is finished can have its receipt then          *)
(* (docs/ui.md: "available ... after the run is terminal").                  *)
ToldTruly == \A r \in told :
  /\ r.id # Nowhere => Exists(r.id)
  /\ r.view # Nowhere /\ r.view.status = "finished" => sessions[r.id].receipt

(* Both: what is asked for is run, and what is told of the run is so.        *)
ServedTruly == RunsAsPosted /\ ToldTruly
===============================================================================
