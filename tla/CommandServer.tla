--------------------------- MODULE CommandServer ---------------------------
(***************************************************************************)
(* The daemon's command socket (packages/execution/src/socket-server.ts):  *)
(* idempotent execution of signed commands over LiveControl, with the      *)
(* one-shot codes of StepUpVerifier (step-up.ts).                          *)
(*                                                                         *)
(* A request r is a connection; it has one line in flight at a time, since *)
(* serve() queues the lines of a socket.  An idempotency key stands for    *)
(* one command of one actor with its code: whoever retries sends the same  *)
(* key, command and code in a new envelope, at any time and on another     *)
(* connection (ExecutionClient gives up on an answer after five seconds,   *)
(* while the alerts of a command may take half a minute).  Signatures,     *)
(* clocks and nonces are abstracted: a line is admitted or rejected.       *)
(*                                                                         *)
(* A command that ends without a real await, and the end of one that had   *)
(* some, are followed by the save of the response in the same turn of the  *)
(* event loop: each is one action here.                                    *)
(***************************************************************************)
EXTENDS LiveControl

CONSTANTS
    Keys,       \* idempotency keys
    ActorOf,    \* [Keys -> Actors]: for whom the command is
    CommandOf   \* [Keys -> Commands]: the command

Commands == {"arm", "disarm", "kill", "reset"}

ASSUME CommandServerAssumption ==
    /\ "none" \notin Keys
    /\ ActorOf \in [Keys -> Actors]
    /\ CommandOf \in [Keys -> Commands]

VARIABLES
    line,       \* [Requests -> Keys \cup {"none"}]: the key whose command runs
    stored,     \* [Keys -> Stored]: the journal's table of responses
    spent,      \* keys whose code was accepted since the start (lastStep)
    dying,      \* a rejection nobody handles is ending the process
    ran,        \* history: keys whose command was executed
    cutOff,     \* history: keys with an execution that left no response
    recorded,   \* history: kills and arms whose control row is on disk
    acted       \* history: arms and resets that took effect since the start

server == <<line, stored, spent, dying>>
past == <<ran, cutOff, recorded, acted>>
csVars == <<vars, server, past>>

Stored == States \cup {"none", "refused"}

CSTypeOK ==
    /\ TypeOK
    /\ line \in [Requests -> Keys \cup {"none"}]
    /\ stored \in [Keys -> Stored]
    /\ spent \subseteq Keys
    /\ dying \in BOOLEAN
    /\ ran \subseteq Keys
    /\ cutOff \subseteq Keys
    /\ recorded \subseteq Keys
    /\ acted \subseteq Keys

CSInit ==
    /\ Init
    /\ line = [r \in Requests |-> "none"]
    /\ stored = [k \in Keys |-> "none"]
    /\ spent = {}
    /\ dying = FALSE
    /\ ran = {}
    /\ cutOff = {}
    /\ recorded = {}
    /\ acted = {}

-----------------------------------------------------------------------------
(* Saving the response.                                                    *)

InFlight == {line[r] : r \in Requests} \ {"none"}

\* The unhandled rejection of a failed save or rejection row ends the process.
\* (Bound: only where the next start is still within MaxBoots.)
Dies ==
    /\ JournalMayFail
    /\ boot < MaxBoots
    /\ dying' = TRUE

\* Mutants of Save: internal errors are stored as well; only successes are.
SaveEverything(r, k, response) ==
    /\ line' = [line EXCEPT ![r] = "none"]
    /\ stored' = [stored EXCEPT ![k] = IF @ = "none" THEN response ELSE @]
    /\ UNCHANGED dying
SaveSuccess(r, k, response) ==
    /\ line' = [line EXCEPT ![r] = "none"]
    /\ stored' = [stored EXCEPT ![k] =
                     IF @ = "none" /\ response \in States THEN response ELSE @]
    /\ UNCHANGED dying

\* The command of line r ended: an internal error is answered and not stored,
\* every other response is, unless the key has one already (INSERT OR IGNORE).
Save(r, k, response) ==
    /\ line' = [line EXCEPT ![r] = "none"]
    /\ \/ /\ response # "internal"
          /\ stored' = [stored EXCEPT ![k] = IF @ = "none" THEN response ELSE @]
          /\ UNCHANGED dying
       \/ response = "internal" /\ UNCHANGED <<stored, dying>>
       \/ response # "internal" /\ Dies /\ UNCHANGED stored

\* After a step of line r's command: it waits, or ended and is saved.
Proceed(r, k) ==
    IF stage'[r] = "idle"
    THEN Save(r, k, res'[r])
    ELSE line' = [line EXCEPT ![r] = k] /\ UNCHANGED <<stored, dying>>

\* History: this execution ended and left no response.
NoteCutOff(r, k) ==
    cutOff' = IF dying' \/ res'[r] = "internal" THEN cutOff \cup {k} ELSE cutOff

-----------------------------------------------------------------------------
(* A line is admitted and its command executed up to the first await.      *)

\* Mutant of Accept: the step of an accepted code is not remembered.
AcceptForgets(k) ==
    /\ k \notin spent
    /\ UNCHANGED spent

\* StepUpVerifier.verify accepts: the code's step is newer than the last.
Accept(k) ==
    /\ k \notin spent
    /\ spent' = spent \cup {k}

\* It refuses, or its append throws, which spends a code it had accepted.
Refuse(r, k) ==
    \/ UNCHANGED spent
    \/ res'[r] = "internal" /\ Accept(k)

\* The executions that reach the assignment of a state.
Acts(r, k) ==
    LET a == ActorOf[k]
    IN  /\ \/ CommandOf[k] = "arm" /\ Arm(r, a) /\ Accept(k)
           \/ CommandOf[k] = "reset" /\ Reset(r, a) /\ Accept(k)
           \/ CommandOf[k] = "disarm" /\ Disarm(r, a) /\ UNCHANGED spent
           \/ CommandOf[k] = "kill" /\ Kill(r, a) /\ UNCHANGED spent
        /\ acted' = IF CommandOf[k] \in {"arm", "reset"} THEN acted \cup {k} ELSE acted
        /\ recorded' = IF CommandOf[k] \in {"arm", "kill"} /\ a \notin unjournaled'
                       THEN recorded \cup {k} ELSE recorded

\* The ones that are refused, or find nothing to do.
Idles(r, k) ==
    LET a == ActorOf[k]
    IN  /\ \/ CommandOf[k] = "arm" /\ ArmRefused(r, a) /\ UNCHANGED spent
           \/ CommandOf[k] = "arm" /\ ArmStepUpThrows(r, a) /\ Refuse(r, k)
           \/ CommandOf[k] = "reset" /\ ResetStepUpThrows(r, a) /\ Refuse(r, k)
           \/ CommandOf[k] = "reset" /\ ResetNothing(r, a) /\ UNCHANGED spent
           \/ CommandOf[k] = "disarm" /\ DisarmNothing(r, a) /\ UNCHANGED spent
        /\ UNCHANGED <<acted, recorded>>

\* No response is stored for the key: the command runs.
Execute(r, k) ==
    /\ ~dying
    /\ stored[k] = "none"
    /\ stage[r] = "idle"
    /\ Acts(r, k) \/ Idles(r, k)
    /\ ran' = ran \cup {k}
    /\ Proceed(r, k)
    /\ NoteCutOff(r, k)

\* The stored response is the answer, and nothing runs.
Replay(r, k) ==
    /\ ~dying
    /\ stage[r] = "idle"
    /\ stored[k] # "none"
    /\ res' = [res EXCEPT ![r] = stored[k]]
    /\ UNCHANGED <<lastRow, mem, stage, who, alerts, boot, unjournaled, standing>>
    /\ UNCHANGED <<server, past>>

\* A query is executed each time and never stored.
Query(r, a) ==
    /\ ~dying
    /\ Status(r, a)
    /\ UNCHANGED <<server, past>>

\* A command's line with a bad signature, a stale clock or a used nonce is
\* answered without running; the row about it is not in a try block.
RejectThrows ==
    /\ ~dying
    /\ Dies
    /\ UNCHANGED <<vars, line, stored, spent, past>>

-----------------------------------------------------------------------------
\* An await of line r's command ended.
Resume(r) ==
    /\ ~dying
    /\ Continuation(r)
    /\ Proceed(r, line[r])
    /\ NoteCutOff(r, line[r])
    /\ UNCHANGED <<spent, ran, recorded, acted>>

TestEnds ==
    /\ ~dying
    /\ TestSettles
    /\ UNCHANGED <<server, past>>

\* The process ends and starts again: the journal and its responses are left.
CSRestart ==
    /\ Restart
    /\ line' = [r \in Requests |-> "none"]
    /\ spent' = {}
    /\ dying' = FALSE
    /\ cutOff' = cutOff \cup InFlight
    /\ acted' = {}
    /\ UNCHANGED <<stored, ran, recorded>>

CSNext ==
    \/ \E r \in Requests, k \in Keys : Execute(r, k) \/ Replay(r, k)
    \/ \E r \in Requests, a \in Actors : Query(r, a)
    \/ \E r \in Requests : Resume(r)
    \/ RejectThrows
    \/ TestEnds
    \/ CSRestart

CSSpec == CSInit /\ [][CSNext]_csVars

-----------------------------------------------------------------------------
(* Properties.                                                             *)

\* A key's command runs again only while another of its lines is waiting, or
\* after a run that ended in an internal error or was cut off before its
\* response was on disk: whoever waits for an answer before retrying, and gets
\* one, is never executed twice (socket-server.ts:73-99).
RunsOnce ==
    [][\A r \in Requests, k \in ran :
          Execute(r, k) => k \in cutOff \cup InFlight]_csVars

\* "An event isn't acknowledged until it's on disk" (journal.ts:64-66): the
\* stored success of a kill or an arm means its control row was written,
\* however many runs of the key raced for the response.
AcknowledgedIsOnDisk ==
    \A k \in Keys :
        stored[k] \in States /\ CommandOf[k] \in {"arm", "kill"} => k \in recorded

\* A late duplicate of a command that changed a state since the start may run
\* again, but it arms nobody and lifts no kill: the codes are one-shot where
\* idempotency has a window (socket-server.ts:75-93, step-up.ts:124-136).
LateRetryIsHarmless ==
    [][\A r \in Requests, k \in acted :
          Execute(r, k) => \A a \in Actors :
              /\ StateOf(a)' = "armed" => StateOf(a) = "armed"
              /\ StateOf(a) = "killed" => StateOf(a)' = "killed"]_csVars

\* "returns the stored result for a repeated idempotency key without
\* re-executing" (socket-server.test.ts:105).
NotReexecuted == [][\A r \in Requests, k \in ran : ~Execute(r, k)]_csVars
=============================================================================
