---------------------------- MODULE Idempotency ----------------------------
(***************************************************************************)
(* The Idempotency-Key header of the five guarded handlers (create         *)
(* project, generate plan, dispatch, start run, start parallel run).  A    *)
(* client sends an operation, and sends it again with the same key when it *)
(* got an error or no answer.  The handler looks the key up, records it    *)
(* and then performs the operation: three steps, of which the first two    *)
(* are statements of the database and the second comes before the          *)
(* operation has had any effect.                                           *)
(***************************************************************************)
EXTENDS Naturals, FiniteSets

CONSTANTS
    Client,       \* clients, each with one operation and one key
    MaxAttempts   \* bound: how often a client sends its operation

ASSUME IdempotencyAssumption == MaxAttempts \in Nat \ {0}

Attempt == Client \X (1 .. MaxAttempts)

\* What ParseIdempotencyKey makes of the header.
Header == {"none", "malformed", "key"}

Answer == {"ok", "error", "conflict", "invalid"}

\* What can go wrong with a request, besides a lost answer: the client sends it
\* again while a handler is at work on it, a statement of the guard fails, the
\* operation fails, the server stops.
Trouble == {"overlap", "guard", "operation", "crash"}

VARIABLES
    guarded,   \* lockGuard # nil: the store is Postgres
    header,    \* header[c]: the header that client c sends
    keys,      \* the table idempotency_keys, by the client of the key
    at,        \* at[a]: where the handler of attempt a is
    applied,   \* applied[c]: how often the operation took effect
    heard,     \* heard[c]: the answer that client c settled for
    sent,      \* sent[c]: the attempts that c made
    trouble    \* trouble[c]: what went wrong with the requests of c so far

requestVars == <<guarded, header, keys, at, applied, heard, sent, trouble>>

Waiting == {"received", "checked", "proceed"}

RequestsTypeOK ==
    /\ guarded \in BOOLEAN
    /\ header \in [Client -> Header]
    /\ keys \subseteq Client
    /\ at \in [Attempt -> Waiting \cup Answer \cup {"unsent", "lost"}]
    /\ applied \in [Client -> 0 .. MaxAttempts]
    /\ heard \in [Client -> Answer \cup {"nothing"}]
    /\ sent \in [Client -> 0 .. MaxAttempts]
    /\ trouble \in [Client -> SUBSET Trouble]

RequestsInit ==
    /\ guarded \in BOOLEAN
    /\ header \in [Client -> Header]
    /\ keys = {}
    /\ at = [a \in Attempt |-> "unsent"]
    /\ applied = [c \in Client |-> 0]
    /\ heard = [c \in Client |-> "nothing"]
    /\ sent = [c \in Client |-> 0]
    /\ trouble = [c \in Client |-> {}]

MoveTo(a, label) == at' = [at EXCEPT ![a] = label]

Meets(c, what) == trouble' = [trouble EXCEPT ![c] = @ \cup {what}]

-----------------------------------------------------------------------------
(***************************************************************************)
(* The client sends until it hears that the operation was done ("ok"), or  *)
(* that it had been done before ("conflict"), or that its key is wrong.    *)
(***************************************************************************)
Send(c) ==
    LET n == sent[c]
        atWork == n > 0 /\ at[<<c, n>>] \in Waiting
    IN  /\ heard[c] = "nothing"
        /\ n < MaxAttempts
        /\ n > 0 => at[<<c, n>>] \in Waiting \cup {"error", "lost"}
        /\ \/ atWork /\ Meets(c, "overlap")
           \/ ~atWork /\ UNCHANGED trouble
        /\ sent' = [sent EXCEPT ![c] = n + 1]
        /\ MoveTo(<<c, n + 1>>, "received")
        /\ UNCHANGED <<guarded, header, keys, applied, heard>>

Hear(a) ==
    /\ at[a] \in Answer \ {"error"}
    /\ heard[a[1]] = "nothing"
    /\ \/ heard' = [heard EXCEPT ![a[1]] = at[a]] /\ UNCHANGED at
       \/ MoveTo(a, "lost") /\ UNCHANGED heard
    /\ UNCHANGED <<guarded, header, keys, applied, sent, trouble>>

(***************************************************************************)
(* checkIdempotencyOrReject.  Without a header, without a guard or with a  *)
(* failing database the request goes on.                                   *)
(***************************************************************************)
LookUp(a) ==
    LET c == a[1]
    IN  \/ ~guarded /\ MoveTo(a, "proceed") /\ UNCHANGED trouble
        \/ guarded /\ MoveTo(a, "proceed") /\ Meets(c, "guard")
        \/ guarded /\ c \in keys /\ MoveTo(a, "conflict") /\ UNCHANGED trouble
        \/ guarded /\ c \notin keys /\ MoveTo(a, "checked") /\ UNCHANGED trouble

CheckIdempotency(a) ==
    LET c == a[1]
    IN  /\ at[a] = "received"
        /\ \/ header[c] = "malformed" /\ MoveTo(a, "invalid") /\ UNCHANGED trouble
           \/ header[c] = "none" /\ MoveTo(a, "proceed") /\ UNCHANGED trouble
           \/ header[c] = "key" /\ LookUp(a)
        /\ UNCHANGED <<guarded, header, keys, applied, heard, sent>>

\* Mutation: the key is never stored.
RecordNothing(a) ==
    /\ at[a] = "checked"
    /\ MoveTo(a, "proceed")
    /\ UNCHANGED <<guarded, header, keys, applied, heard, sent, trouble>>

\* INSERT ... ON CONFLICT DO NOTHING does not tell who came first.
RecordIdempotency(a) ==
    /\ at[a] = "checked"
    /\ \/ keys' = keys \cup {a[1]} /\ UNCHANGED trouble
       \/ UNCHANGED keys /\ Meets(a[1], "guard")
    /\ MoveTo(a, "proceed")
    /\ UNCHANGED <<guarded, header, applied, heard, sent>>

\* Mutation: the error of the operation is ignored.
OperateIgnoringError(a) ==
    /\ at[a] = "proceed"
    /\ MoveTo(a, "ok")
    /\ UNCHANGED <<guarded, header, keys, applied, heard, sent, trouble>>

\* The handler's call of the Service.
Operate(a) ==
    /\ at[a] = "proceed"
    /\ \/ /\ applied' = [applied EXCEPT ![a[1]] = @ + 1]
          /\ MoveTo(a, "ok")
          /\ UNCHANGED trouble
       \/ /\ MoveTo(a, "error") /\ Meets(a[1], "operation")
          /\ UNCHANGED applied
    /\ UNCHANGED <<guarded, header, keys, heard, sent>>

\* The requests under way are lost with the process.
Crash ==
    LET hit == {a \in Attempt : at[a] \in Waiting}
    IN  /\ hit # {}
        /\ at' = [a \in Attempt |-> IF a \in hit THEN "error" ELSE at[a]]
        /\ trouble' = [c \in Client |->
                         IF \E a \in hit : a[1] = c THEN trouble[c] \cup {"crash"}
                                                   ELSE trouble[c]]
        /\ UNCHANGED <<guarded, header, keys, applied, heard, sent>>

Handle(a) == CheckIdempotency(a) \/ RecordIdempotency(a) \/ Operate(a)

RequestsNext ==
    \/ \E c \in Client : Send(c)
    \/ \E a \in Attempt : Handle(a) \/ Hear(a)
    \/ Crash

RequestsSpec == RequestsInit /\ [][RequestsNext]_requestVars

(***************************************************************************)
(* A handler that was called goes on, a client sends again, and an answer  *)
(* that is on its way arrives or is lost.                                  *)
(***************************************************************************)
RequestsFairSpec ==
    /\ RequestsSpec
    /\ \A c \in Client : WF_requestVars(Send(c))
    /\ \A a \in Attempt : WF_requestVars(Handle(a) \/ Hear(a))

-----------------------------------------------------------------------------
(***************************************************************************)
(* Properties.  Each says which trouble the promise does not survive: with *)
(* any one less in the hypothesis it fails.                                *)
(***************************************************************************)
\* An operation that is sent with a key to a guarded server takes effect at
\* most once, however often its answer is lost, it fails or the server stops,
\* unless it is sent again while a handler is between the lookup of the key
\* and its record, or the guard's own statements fail, which lets it through.
AppliedAtMostOnce ==
    \A c \in Client :
        /\ guarded /\ header[c] = "key"
        /\ trouble[c] \cap {"overlap", "guard"} = {}
        => applied[c] <= 1

\* A client that settled for "ok", or for "conflict: the operation was already
\* applied", has its operation applied.  The key is recorded before the
\* operation: when that fails, or the server stops in between, or the attempt
\* that recorded it is still at work, "conflict" says what is not so.
SettledMeansApplied ==
    \A c \in Client :
        \/ heard[c] = "ok"
        \/ heard[c] = "conflict" /\ trouble[c] \subseteq {"guard"}
        => applied[c] >= 1

\* A client with a key in order gets its operation applied, whatever answers
\* are lost and whatever happens to the guard.
EveryOperationApplied ==
    \A c \in Client :
        header[c] = "key" ~>
            applied[c] >= 1 \/ trouble[c] \cap {"operation", "crash"} # {}
=============================================================================
