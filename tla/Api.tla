-------------------------------- MODULE Api --------------------------------
(***************************************************************************)
(* The REST API of one process (internal/api, internal/authtoken,          *)
(* internal/quotelocker) on top of its dispatcher: requests that create,   *)
(* retry and compensate transactions, from the caller's token to the       *)
(* answer, while the workers run and the process is restarted.  orchctl    *)
(* retry and compensate are callers that send no token.                    *)
(***************************************************************************)
EXTENDS Dispatcher, FiniteSets

CONSTANTS
  Bypass,     \* DEV_MODE without a secret: no authentication
  TokenLife,  \* the life of a service token: 24 hours, in ticks
  MaxCalls,   \* bound on the requests of a caller
  MaxDbFails  \* bound on the store calls that fail

ASSUME ApiAssumption ==
  /\ Bypass \in BOOLEAN
  /\ {TokenLife, MaxCalls, MaxDbFails} \subseteq Nat
  /\ Idle \notin Callers

VARIABLES
  call,    \* each caller's request and, once it is idle, its last answer
  calls,   \* requests of each caller so far
  buyer,   \* transactions.user_id: who a transaction has been created for
  known,   \* transactions each caller has been told of
  lost,    \* create requests each caller has had no answer or a 500 for
  dbFails

api == <<call, calls, buyer, known, lost, dbFails>>
avars == <<vars, api>>

Expired == -1   \* also: no Bearer header, or a token that verify refuses
NoCall == [at |-> "idle", op |-> "none", tx |-> Idle, life |-> Expired, status |-> 0]
Serving == {"create", "insert", "retry", "submit", "compensate", "cascade"}

ApiTypeOK ==
  /\ TypeOK
  /\ call \in [Callers ->
       [at: {"idle", "sent"} \cup Serving,
        op: {"none", "create", "retry", "compensate"}, tx: Txs \cup {Idle},
        life: Expired .. TokenLife,
        status: {0, 201, 202, 400, 401, 409, 500}]]
  /\ calls \in [Callers -> 0 .. MaxCalls] /\ lost \in [Callers -> 0 .. MaxCalls]
  /\ buyer \in [Txs -> Callers \cup {Idle}]
  /\ known \in [Callers -> SUBSET Txs]
  /\ dbFails \in 0 .. MaxDbFails

ApiInit ==
  /\ Init
  /\ call = [c \in Callers |-> NoCall] /\ calls = [c \in Callers |-> 0]
  /\ buyer = [t \in Txs |-> Idle]
  /\ known = [c \in Callers |-> {}] /\ lost = [c \in Callers |-> 0]
  /\ dbFails = 0

-----------------------------------------------------------------------------
(* Requests and their authentication.                                      *)

Goes(c, stage) == call' = [call EXCEPT ![c].at = stage, ![c].life = Expired]
Answer(c, code) == call' = [call EXCEPT ![c].at = "idle", ![c].status = code]

\* Bound: Txs has an id for every create request under way, and one more.
IdsLeft ==
  Cardinality({c \in Callers : call[c].at # "idle" /\ call[c].op = "create"})
    < Cardinality({t \in Txs : sagas[t] = "absent"})

\* A request with no token, or with one that Issue minted not too long ago; to
\* retry or compensate a transaction that exists.  (An unknown id is refused
\* like a terminal saga.)
Send(c) ==
  /\ phase = "running" /\ call[c].at = "idle" /\ calls[c] < MaxCalls
  /\ calls' = [calls EXCEPT ![c] = @ + 1]
  /\ \E life \in Expired .. TokenLife,
        op \in {"create", "retry", "compensate"},
        t \in Txs \cup {Idle} :
       /\ IF op = "create" THEN t = Idle /\ IdsLeft
                          ELSE t # Idle /\ sagas[t] # "absent"
       /\ call' = [call EXCEPT ![c] = [at |-> "sent", op |-> op, tx |-> t,
                                       life |-> life, status |-> 0]]
  /\ UNCHANGED <<vars, buyer, known, lost, dbFails>>

\* Time passes while the request is on its way.
Tick(c) ==
  /\ call[c].at = "sent" /\ call[c].life # Expired
  /\ call' = [call EXCEPT ![c].life = @ - 1]
  /\ UNCHANGED <<vars, calls, buyer, known, lost, dbFails>>

\* The handler runs behind a token that is signed and not expired.
Middleware(c) ==
  /\ call[c].at = "sent"
  /\ IF Bypass \/ 0 <= call[c].life
     THEN Goes(c, call[c].op)
     ELSE Answer(c, 401)
  /\ UNCHANGED <<vars, calls, buyer, known, lost, dbFails>>

-----------------------------------------------------------------------------
(* handleCreate                                                            *)

\* A body that is no JSON or lacks a field.
validateCreate(c) ==
  /\ call[c].at = "create"
  /\ Answer(c, 400)
  /\ UNCHANGED <<vars, calls, buyer, known, lost, dbFails>>

\* Locker.Acquire of the NoopLocker: any number of callers hold a quote.
Acquire(c) ==
  /\ call[c].at = "create"
  /\ Goes(c, "insert")
  /\ UNCHANGED <<vars, calls, buyer, known, lost, dbFails>>

\* Defect: the answer is sent before the transaction is committed.
CreateTxUncommitted(c, t) ==
  /\ call[c].at = "insert" /\ sagas[t] = "absent"
  /\ \/ Create(t) /\ buyer' = [buyer EXCEPT ![t] = c] /\ UNCHANGED dbFails
     \/ dbFails < MaxDbFails /\ dbFails' = dbFails + 1 /\ UNCHANGED <<vars, buyer>>
  /\ known' = [known EXCEPT ![c] = @ \cup {t}]
  /\ Answer(c, 201)
  /\ UNCHANGED <<calls, lost>>

\* The rows of a new transaction are committed under a fresh id, and the
\* caller is told, or the connection is lost with the answer.
CreateTx(c, t) ==
  /\ call[c].at = "insert"
  /\ Create(t)
  /\ buyer' = [buyer EXCEPT ![t] = c]
  /\ \/ Answer(c, 201) /\ known' = [known EXCEPT ![c] = @ \cup {t}] /\ UNCHANGED lost
     \/ Answer(c, 0) /\ lost' = [lost EXCEPT ![c] = @ + 1] /\ UNCHANGED known
  /\ UNCHANGED <<calls, dbFails>>

\* RunInTx returns an error: the rows are not there, or they are and the
\* acknowledgement of the commit is lost.
CreateTxFails(c, t) ==
  /\ call[c].at = "insert" /\ dbFails < MaxDbFails
  /\ dbFails' = dbFails + 1
  /\ \/ Create(t) /\ buyer' = [buyer EXCEPT ![t] = c]
     \/ UNCHANGED <<vars, buyer>>
  /\ Answer(c, 500)
  /\ lost' = [lost EXCEPT ![c] = @ + 1]
  /\ UNCHANGED <<calls, known>>

-----------------------------------------------------------------------------
(* handleRetry and handleCompensate, with Control.Retry and .Compensate    *)

\* The saga is loaded: absent or terminal, the request is refused.
Refuse(c) ==
  /\ call[c].at \in {"retry", "compensate"} /\ call[c].tx \notin Inflight
  /\ Answer(c, 409)
  /\ UNCHANGED <<vars, calls, buyer, known, lost, dbFails>>

\* handleRetry loads the saga itself (400) when the request names no step,
\* and Control loads it (409).
LoadFails(c) ==
  /\ call[c].at \in {"retry", "compensate"} /\ dbFails < MaxDbFails
  /\ dbFails' = dbFails + 1
  /\ \/ Answer(c, 409)
     \/ call[c].op = "retry" /\ Answer(c, 400)
  /\ UNCHANGED <<vars, calls, buyer, known, lost>>

handleRetry(c) ==
  /\ call[c].at = "retry"
  /\ Retry(c, call[c].tx)
  /\ Goes(c, "submit")
  /\ UNCHANGED <<calls, buyer, known, lost, dbFails>>

\* Submit has returned.
RetryAccepted(c) ==
  /\ call[c].at = "submit"
  /\ RetrySubmit(c)
  /\ Answer(c, 202)
  /\ UNCHANGED <<calls, buyer, known, lost, dbFails>>

handleCompensate(c) ==
  /\ call[c].at = "compensate" /\ call[c].tx \in Inflight
  /\ Goes(c, "cascade")
  /\ UNCHANGED <<vars, calls, buyer, known, lost, dbFails>>

\* The cascade ends the saga, or it has lost the row to a worker; the answer
\* tells whether a compensation failed, not which of the two.
CascadeEnds(c) ==
  /\ call[c].at = "cascade"
  /\ Compensated(call[c].tx) \/ UNCHANGED vars
  /\ \E code \in {202, 409} : Answer(c, code)
  /\ UNCHANGED <<calls, buyer, known, lost, dbFails>>

-----------------------------------------------------------------------------
\* The process dies under its requests.
ApiRestart ==
  /\ Restart
  /\ call' = [c \in Callers |-> IF call[c].at = "idle" THEN call[c] ELSE NoCall]
  /\ lost' = [c \in Callers |->
                IF call[c].at # "idle" /\ call[c].op = "create"
                THEN lost[c] + 1 ELSE lost[c]]
  /\ UNCHANGED <<calls, buyer, known, dbFails>>

Handle(c) ==
  \/ Middleware(c) \/ validateCreate(c) \/ Acquire(c) \/ Refuse(c) \/ LoadFails(c)
  \/ handleRetry(c) \/ RetryAccepted(c) \/ handleCompensate(c) \/ CascadeEnds(c)
  \/ \E t \in Txs : CreateTx(c, t) \/ CreateTxFails(c, t)

Workers == Recover \/ ScanFails \/ \E w \in Worker : Work(w) \/ RunFails(w)

ApiNext ==
  \/ Workers /\ UNCHANGED api
  \/ ApiRestart
  \/ \E c \in Callers : Send(c) \/ Tick(c) \/ Handle(c)

ApiSpec == ApiInit /\ [][ApiNext]_avars

\* Besides the dispatcher's goroutines, each handler is scheduled; one that
\* waits in Submit is served once its channel has room.
ApiFairSpec ==
  /\ ApiSpec
  /\ WF_avars(Recover /\ UNCHANGED api)
  /\ \A w \in Worker : WF_avars(Work(w) /\ UNCHANGED api)
  /\ \A c \in Callers : WF_avars(Handle(c))

-----------------------------------------------------------------------------
(* Properties.                                                             *)

Bought(c) == {t \in Txs : buyer[t] = c}

\* A caller can believe its answers, whatever failed or was restarted on the
\* way: a transaction it was told of (201) is in the store; one it was not
\* told of belongs to a create request that had no answer or a 500, so a
\* refused request (400, 401, 409) has bought nothing; 401 is only for a token
\* that is missing or older than its life; 409 to a retry means that there is
\* nothing to retry, unless the store failed.
AnswersAreTrue ==
  \A c \in Callers :
    /\ known[c] \subseteq {t \in Bought(c) : sagas[t] # "absent"}
    /\ Cardinality(Bought(c)) <= Cardinality(known[c]) + lost[c]
    /\ call[c].status = 401 => call[c].life = Expired
    /\ call[c].status = 409 /\ call[c].op = "retry" =>
         call[c].tx \notin Inflight \/ dbFails > 0

\* A retry that was answered 202 is honoured: the saga is driven to its end,
\* also when its channel was full or the process is restarted, unless a run
\* or a recovery scan fails.  (It is what a created transaction, which nobody
\* submits, waits for.)
AcceptedFinishes ==
  \A t \in Txs :
    (\E c \in Callers : call[c].status = 202 /\ call[c].op = "retry" /\ call[c].tx = t)
      ~> sagas[t] = "terminal" \/ fails + scanFails > 0

\* Every request is answered or cut off by a restart: none waits in Submit
\* for ever, also after runs that failed.
CallsAnswered == \A c \in Callers : call[c].at # "idle" ~> call[c].at = "idle"

\* "Locker locks a quote for the duration of tx creation so two concurrent
\* purchases against the same quote cannot both succeed."  (All callers buy
\* on one quote.)
QuoteLocked ==
  \A c, d \in Callers : call[c].at = "insert" /\ call[d].at = "insert" => c = d
=============================================================================
