---------------------------- MODULE Credentials ----------------------------
(***************************************************************************)
(* The stored sign-in (src/src/auth/credentials.rs) and its refresh        *)
(* (load_auth_token, src/src/api/client.rs) by several processes: the      *)
(* daemon, git proxies, commands.  A refresh token works once: the server  *)
(* answers with its successor and refuses it from then on.  Refreshes are  *)
(* serialised by credentials.lock, which a process stops waiting for after *)
(* ten seconds; login and logout never take it.  The file is truncated and *)
(* then written.                                                           *)
(*                                                                         *)
(* One caller stands for the threads of a process, which REFRESH_LOCK      *)
(* serialises.  live, refusals, raced and spilt are history variables.     *)
(***************************************************************************)
EXTENDS Integers, Sequences

CONSTANTS
  Procs,     \* processes that call load_auth_token
  Steady,    \* one of them that keeps running; the others may stall
  MaxLogins, \* bound: autter login is run that often
  MaxUses,   \* bound: expiries of an access token of one login
  MaxFaults  \* bound: crashes, lost answers and failed writes

VARIABLES
  store,    \* the credentials file
  lock,     \* holder of credentials.lock
  job,      \* each process's call of load_auth_token
  memory,   \* REFUSED_REFRESH_TOKEN of each process
  signIn,   \* autter login: "idle", or "filling" after the truncation
  faults,
  live,     \* history: the token the server accepts for each login
  refusals, \* history: refresh requests of a process the server refused, by token
  raced,    \* history: a write used a comparison that another writer had outdated
  spilt     \* history: a crash, a lost answer or a failed write cost a rotation

vars == <<store, lock, job, memory, signIn, faults, live, refusals, raced, spilt>>

history == <<live, refusals, raced, spilt>>

Tokens == [login : 1..MaxLogins, use : 0..MaxUses]

NoToken == [login |-> 0, use |-> 0]

NoOne == "no one"

Creds(t, fresh, refused) == [token |-> t, fresh |-> fresh, refused |-> refused]

\* No file, a truncated one (it does not parse), or credentials.
None == Creds(NoToken, FALSE, FALSE)
Torn == Creds(NoToken, TRUE, TRUE)

Loads == store \notin {None, Torn}

\* sent: the refresh token used; write: what the job is about to store, and
\* seen: the stored token when it decided to (history).
Idle == [at |-> "idle", sent |-> NoToken, retried |-> FALSE, write |-> None, seen |-> NoToken]

Login == Len(live)

Init ==
  /\ store = None /\ lock = NoOne
  /\ job = [p \in Procs |-> Idle]
  /\ memory = [p \in Procs |-> NoToken]
  /\ signIn = "idle" /\ faults = 0
  /\ live = <<>>
  /\ refusals = [p \in Procs |-> [t \in Tokens |-> 0]]
  /\ raced = FALSE /\ spilt = FALSE

At(p, step) == job[p].at = step

GoTo(p, step) == job' = [job EXCEPT ![p].at = step]

\* The call returns; dropping the guards releases the file lock.
Return(p) ==
  /\ job' = [job EXCEPT ![p] = Idle]
  /\ lock' = IF lock = p THEN NoOne ELSE lock

\* load_refreshable_credentials: neither refused on disk nor in this process.
Refreshable(p) == Loads /\ ~store.refused /\ memory[p] # store.token

Fault == faults < MaxFaults /\ faults' = faults + 1

----------------------------------------------------------------------------
\* The call needs a refresh: the access token has (nearly) expired.
Call(p) ==
  /\ At(p, "idle") /\ Refreshable(p) /\ ~store.fresh
  /\ GoTo(p, "locking")
  /\ UNCHANGED <<store, lock, memory, signIn, faults, history>>

\* Mutant: waits for as long as the lock is held.
GetLock_Waits(p) ==
  /\ At(p, "locking") /\ lock = NoOne
  /\ lock' = p
  /\ GoTo(p, "recheck")
  /\ UNCHANGED <<store, memory, signIn, faults, history>>

\* acquire_refresh_file_lock: the lock, or none after ten seconds.
GetLock(p) ==
  /\ At(p, "locking")
  /\ lock' = IF lock = NoOne THEN p ELSE lock
  /\ GoTo(p, "recheck")
  /\ UNCHANGED <<store, memory, signIn, faults, history>>

\* Mutant: the second look does not ask for a refusal.
Recheck_IgnoresRefusal(p) ==
  /\ At(p, "recheck")
  /\ IF Loads /\ ~store.fresh
     THEN job' = [job EXCEPT ![p].at = "send", ![p].sent = store.token] /\ UNCHANGED lock
     ELSE Return(p)
  /\ UNCHANGED <<store, memory, signIn, faults, history>>

\* The second look, under the locks.
Recheck(p) ==
  /\ At(p, "recheck")
  /\ IF Refreshable(p) /\ ~store.fresh
     THEN job' = [job EXCEPT ![p].at = "send", ![p].sent = store.token] /\ UNCHANGED lock
     ELSE Return(p)
  /\ UNCHANGED <<store, memory, signIn, faults, history>>

Successor(t) == [t EXCEPT !.use = @ + 1]

\* refresh_access_token: the server rotates the token, or refuses a used one.
Refresh(p) ==
  LET t == job[p].sent IN
  /\ At(p, "send")
  /\ \/ /\ live[t.login] = t
        /\ live' = [live EXCEPT ![t.login] = Successor(t)]
        /\ job' = [job EXCEPT ![p].at = "compare", ![p].write = Creds(Successor(t), TRUE, FALSE)]
        /\ UNCHANGED refusals
     \/ /\ live[t.login] # t
        /\ job' = [job EXCEPT ![p].at = "refused"]
        /\ refusals' = [refusals EXCEPT ![p][t] = @ + 1]
        /\ UNCHANGED live
  /\ UNCHANGED <<store, lock, memory, signIn, faults, raced, spilt>>

\* The request or its answer is lost, with the successor if the server rotated.
LoseAnswer(p) ==
  LET t == job[p].sent IN
  /\ At(p, "send") /\ Fault
  /\ \/ live' = live /\ spilt' = spilt
     \/ /\ live[t.login] = t
        /\ live' = [live EXCEPT ![t.login] = Successor(t)]
        /\ spilt' = TRUE
  /\ GoTo(p, "failed")
  /\ UNCHANGED <<store, lock, memory, signIn, refusals, raced>>

ToWrite(p, c) == job' = [job EXCEPT ![p].at = "write", ![p].write = c, ![p].seen = store.token]

\* Mutant: a session marked as refused is not replaced.
Compare_NotRefused(p) ==
  /\ At(p, "compare")
  /\ IF Loads /\ ~store.refused /\ store.token = job[p].sent
     THEN ToWrite(p, job[p].write) /\ UNCHANGED <<lock, spilt>>
     ELSE Return(p) /\ spilt' = (spilt \/ store = Torn)
  /\ UNCHANGED <<store, memory, signIn, faults, live, refusals, raced>>

\* Mutant: stores what the server answered whatever the file now holds.
Compare_Skipped(p) ==
  /\ At(p, "compare")
  /\ ToWrite(p, job[p].write) /\ UNCHANGED <<lock, spilt>>
  /\ UNCHANGED <<store, memory, signIn, faults, live, refusals, raced>>

\* store_if_current: the comparison, a step before its write.
Compare(p) ==
  /\ At(p, "compare")
  /\ IF Loads /\ store.token = job[p].sent
     THEN ToWrite(p, job[p].write) /\ UNCHANGED <<lock, spilt>>
     ELSE Return(p) /\ spilt' = (spilt \/ store = Torn)
  /\ UNCHANGED <<store, memory, signIn, faults, live, refusals, raced>>

\* Mutant: a failed request counts as a refusal.
Reload_AnyError(p) ==
  /\ job[p].at \in {"refused", "failed"}
  /\ LET other == Loads /\ ~store.refused IN
     IF other /\ store.fresh THEN Return(p)
     ELSE IF other /\ ~job[p].retried /\ store.token # job[p].sent
     THEN /\ job' = [job EXCEPT ![p].at = "send", ![p].sent = store.token, ![p].retried = TRUE]
          /\ UNCHANGED lock
     ELSE GoTo(p, "mark") /\ UNCHANGED lock
  /\ UNCHANGED <<store, memory, signIn, faults, history>>

\* After an error: a session that a sibling stored meanwhile is used, or
\* refreshed once more; only a refusal of the token itself is recorded.
Reload(p) ==
  /\ job[p].at \in {"refused", "failed"}
  /\ LET other == Loads /\ ~store.refused IN
     IF other /\ store.fresh THEN Return(p)
     ELSE IF other /\ ~job[p].retried /\ store.token # job[p].sent
     THEN /\ job' = [job EXCEPT ![p].at = "send", ![p].sent = store.token, ![p].retried = TRUE]
          /\ UNCHANGED lock
     ELSE IF At(p, "refused") THEN GoTo(p, "mark") /\ UNCHANGED lock
     ELSE Return(p)
  /\ UNCHANGED <<store, memory, signIn, faults, history>>

\* mark_refresh_failed: the comparison.  A file that does not load makes the
\* process remember the refusal itself.
Mark(p) ==
  /\ At(p, "mark")
  /\ \/ /\ Loads /\ store.token = job[p].sent /\ ~store.refused
        /\ ToWrite(p, [store EXCEPT !.refused = TRUE])
        /\ UNCHANGED <<lock, memory>>
     \/ /\ store = None \/ store.refused \/ store.token # job[p].sent
        /\ Return(p)
        /\ memory' = IF store = Torn THEN [memory EXCEPT ![p] = job[p].sent] ELSE memory
  /\ UNCHANGED <<store, signIn, faults, history>>

\* store: the file is truncated, then written.
Truncate(p) ==
  /\ At(p, "write")
  /\ raced' = (raced \/ store.token # job[p].seen)
  /\ store' = Torn
  /\ GoTo(p, "fill")
  /\ UNCHANGED <<lock, memory, signIn, faults, live, refusals, spilt>>

Fill(p) ==
  /\ At(p, "fill")
  /\ raced' = (raced \/ store # Torn)
  /\ store' = job[p].write
  /\ Return(p)
  /\ UNCHANGED <<memory, signIn, faults, live, refusals, spilt>>

\* Opening the file fails: a refusal is remembered, a rotated token is lost.
CannotWrite(p) ==
  /\ At(p, "write") /\ Fault
  /\ Return(p)
  /\ IF job[p].write.refused
     THEN memory' = [memory EXCEPT ![p] = job[p].sent] /\ UNCHANGED spilt
     ELSE spilt' = TRUE /\ UNCHANGED memory
  /\ UNCHANGED <<store, signIn, live, refusals, raced>>

\* The process dies; the system releases its lock.
Crash(p) ==
  /\ ~At(p, "idle") /\ Fault
  /\ Return(p)
  /\ memory' = [memory EXCEPT ![p] = NoToken]
  /\ refusals' = [refusals EXCEPT ![p] = [t \in Tokens |-> 0]]
  /\ spilt' = (spilt \/ job[p].at \in {"compare", "write", "fill"})
  /\ UNCHANGED <<store, signIn, live, raced>>

----------------------------------------------------------------------------
\* autter login: a new session, stored without the locks.
SignIn ==
  /\ signIn = "idle" /\ Login < MaxLogins
  /\ store' = Torn /\ signIn' = "filling"
  /\ live' = Append(live, [login |-> Login + 1, use |-> 0])
  /\ raced' = (raced \/ \E p \in Procs : At(p, "fill"))
  /\ UNCHANGED <<lock, job, memory, faults, refusals, spilt>>

SignInFill ==
  /\ signIn = "filling" /\ signIn' = "idle"
  /\ store' = Creds([login |-> Login, use |-> 0], TRUE, FALSE)
  /\ raced' = (raced \/ store # Torn)
  /\ UNCHANGED <<lock, job, memory, faults, live, refusals, spilt>>

\* autter logout.
SignOut ==
  /\ Loads
  /\ store' = None
  /\ UNCHANGED <<lock, job, memory, signIn, faults, history>>

\* An hour passes (its bound is that of the token's uses).
Expire ==
  /\ Loads /\ store.fresh /\ store.token.use < MaxUses
  /\ store' = [store EXCEPT !.fresh = FALSE]
  /\ UNCHANGED <<lock, job, memory, signIn, faults, history>>

Run(p) ==
  \/ GetLock(p) \/ Recheck(p) \/ Refresh(p) \/ Compare(p) \/ Reload(p) \/ Mark(p)
  \/ Truncate(p) \/ Fill(p)

Next ==
  \/ \E p \in Procs : Call(p) \/ Run(p) \/ LoseAnswer(p) \/ CannotWrite(p) \/ Crash(p)
  \/ SignIn \/ SignInFill \/ SignOut \/ Expire

Fairness == WF_vars(Run(Steady))

Spec == Init /\ [][Next]_vars /\ Fairness

----------------------------------------------------------------------------
CredsType == [token : Tokens, fresh : BOOLEAN, refused : BOOLEAN] \cup {None, Torn}

\* The type of the state.
TypeOK ==
  /\ store \in CredsType
  /\ lock \in Procs \cup {NoOne}
  /\ \A p \in Procs :
       /\ job[p].at \in {"idle", "locking", "recheck", "send", "compare", "refused", "failed",
                         "mark", "write", "fill"}
       /\ {job[p].sent, job[p].seen} \subseteq Tokens \cup {NoToken}
       /\ job[p].retried \in BOOLEAN
       /\ job[p].write \in CredsType
  /\ memory \in [Procs -> Tokens \cup {NoToken}]
  /\ signIn \in {"idle", "filling"}
  /\ faults \in 0..MaxFaults
  /\ live \in Seq(Tokens) /\ Login <= MaxLogins
  /\ raced \in BOOLEAN /\ spilt \in BOOLEAN

\* Unless a crash or a lost answer or write cost the rotation, a stored login
\* keeps working: the server accepts the stored token, or the process that
\* used it up is about to store the successor (store_if_current,
\* credentials.rs:176).  Two processes that refresh without the lock included.
StoredLoginWorks ==
  (Loads /\ ~raced /\ ~spilt) =>
    \/ live[store.token.login] = store.token
    \/ \E p \in Procs :
         /\ job[p].at \in {"compare", "write"}
         /\ job[p].sent = store.token
         /\ job[p].write.token = live[store.token.login]

\* Only a token the server has refused is marked as refused: no lost answer
\* and no sibling's refusal locks out a login that works
\* (record_refused_login, client.rs:224).
MarkedWasRefused ==
  (Loads /\ store.refused) => live[store.token.login] # store.token

\* A login stays until the next one or a logout: no refresh of an older
\* session is stored over it (credentials.rs:168), unless its comparison was
\* outdated when it wrote.
LatestLoginStays == (Loads /\ ~raced) => store.token.login = Login

\* The same without the exception does not hold: the comparison and the write of
\* a refresh are two steps (credentials.rs:166-169).
LoginNotOverwritten == Loads => store.token.login = Login

\* A process hears of one refusal of a token at most: it never sends it again
\* (load_refreshable_credentials, client.rs:104), though its mark is not
\* stored.
RefusedOnce ==
  \A p \in Procs : \A t \in Tokens : refusals[p][t] <= 1

\* Whatever the others do, a call returns: no process waits forever for a
\* stalled holder of credentials.lock (client.rs:274).
CallReturns == ~At(Steady, "idle") ~> At(Steady, "idle")
=============================================================================
