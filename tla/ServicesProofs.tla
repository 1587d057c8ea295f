--------------------------- MODULE ServicesProofs ---------------------------
(***************************************************************************)
(* Proofs about the wrapper's repository states and the stored sign-in,    *)
(* for every set of commands and of processes and every number of logins,  *)
(* expiries and faults.                                                    *)
(***************************************************************************)
EXTENDS MCServices, Sequences, TLAPS

(* The wrapper's repository states (WrapperState) *)

\* The worker applies a command, what both requests brought is complete, and
\* what it is about to take is complete or has been collected.
OverlayInv ==
  /\ at # "idle" => waiter \in Commands
  /\ \A c \in Commands : entry[c] # Overlays!None => entry[c] \cap ahead[c] = {}
  /\ at = "take" => /\ ahead[waiter] = {}
                    /\ entry[waiter] = Overlays!None \/ entry[waiter] = Overlays!Parts

OverlaysHold ==
  Overlays!TypeOK /\ OverlayInv /\ Overlays!WholeOverlay /\ Overlays!NoLostWakeup

\* What the requests have brought for a command, or none.
Received == (SUBSET Overlays!Parts) \cup {Overlays!None}

OverlayType ==
  /\ ahead \in [Commands -> SUBSET Overlays!Parts]
  /\ entry \in [Commands -> Received] /\ taken \in [Commands -> Received]
  /\ old \subseteq {c \in Commands : entry[c] # Overlays!None}
  /\ pending \subseteq Commands
  /\ waiter \in Commands \cup {Overlays!NoCommand}
  /\ at \in {"idle", "register", "check", "take", "wait"}
  /\ woken \in BOOLEAN /\ late \in BOOLEAN

LEMMA OverlayTypes == OverlayType <=> Overlays!TypeOK
  BY DEF OverlayType, Received, Overlays!TypeOK

LEMMA PartSets ==
  /\ Overlays!None \in Received /\ {} \in Received /\ Overlays!Parts \in Received
  /\ Overlays!Parts # Overlays!None /\ {} # Overlays!None /\ Overlays!Parts # {}
  /\ Overlays!Parts \in SUBSET Overlays!Parts
  /\ Overlays!None \ Overlays!None = {} /\ Overlays!Parts \ Overlays!None = Overlays!Parts
  /\ \A r \in Received : r \ Overlays!None \in Received
  /\ \A r \in Received, part \in Overlays!Parts :
       (r \ Overlays!None) \cup {part} \in Received
  /\ \A r \in Received, part \in Overlays!Parts :
       (r \ Overlays!None) \cup {part} # Overlays!None
  <1>1. \A r \in Received : r \ Overlays!None \in Received
    BY DEF Received, Overlays!None, Overlays!Parts
  <1>2. \A r \in Received, part \in Overlays!Parts :
          (r \ Overlays!None) \cup {part} \in Received
    BY DEF Received, Overlays!None, Overlays!Parts
  <1>3. \A r \in Received, part \in Overlays!Parts :
          (r \ Overlays!None) \cup {part} # Overlays!None
    BY DEF Overlays!None, Overlays!Parts
  <1>4. /\ Overlays!None \ Overlays!None = {}
        /\ Overlays!Parts \ Overlays!None = Overlays!Parts
    BY DEF Overlays!None, Overlays!Parts
  <1>5. /\ Overlays!None \in Received /\ {} \in Received /\ Overlays!Parts \in Received
        /\ Overlays!Parts # Overlays!None /\ {} # Overlays!None /\ Overlays!Parts # {}
    BY DEF Received, Overlays!None, Overlays!Parts
  <1>6. Overlays!Parts \in SUBSET Overlays!Parts
    BY DEF Overlays!None, Overlays!Parts
  <1> QED
    BY <1>1, <1>2, <1>3, <1>4, <1>5, <1>6

LEMMA OverlaysInit == Overlays!Init => OverlaysHold
  <1> SUFFICES ASSUME Overlays!Init PROVE OverlaysHold
    OBVIOUS
  <1>1. OverlayType
    BY PartSets DEF Overlays!Init, OverlayType
  <1> QED
    BY <1>1, OverlayTypes, PartSets
       DEF Overlays!Init, OverlaysHold, OverlayInv, Overlays!WholeOverlay,
           Overlays!NoLostWakeup

\* What a command's entry becomes.
LEMMA FinishStep ==
  ASSUME OverlayType, waiter \in Commands, NEW parts \in Received, Overlays!Finish(parts)
  PROVE  /\ entry' \in [Commands -> Received] /\ taken' \in [Commands -> Received]
         /\ old' \subseteq {c \in Commands : entry'[c] # Overlays!None}
         /\ waiter' = Overlays!NoCommand /\ at' = "idle"
         /\ \A c \in Commands : /\ entry'[c] \in {entry[c], Overlays!None}
                                /\ taken'[c] \in {taken[c], parts}
  BY PartSets DEF Overlays!Finish, OverlayType

LEMMA OverlaysNext == OverlaysHold /\ [Overlays!Next]_(Overlays!vars) => OverlaysHold'
  <1> SUFFICES ASSUME OverlayType, OverlaysHold, [Overlays!Next]_(Overlays!vars)
               PROVE  OverlayType' /\ OverlayInv' /\ Overlays!WholeOverlay'
                      /\ Overlays!NoLostWakeup'
    <2>1. OverlayType' <=> Overlays!TypeOK'
      BY DEF OverlayType, Received, Overlays!TypeOK
    <2> QED
      BY <2>1, OverlayTypes DEF OverlaysHold
  <1> USE DEF OverlaysHold, OverlayType, OverlayInv, Overlays!WholeOverlay,
              Overlays!NoLostWakeup
  <1> DEFINE Holds ==
        OverlayType /\ OverlayInv /\ Overlays!WholeOverlay /\ Overlays!NoLostWakeup
  <1>1. ASSUME NEW c \in Commands, Overlays!StoreWrapperState(c) PROVE Holds'
    <2>1. PICK part \in ahead[c] :
            /\ ahead' = [ahead EXCEPT ![c] = @ \ {part}]
            /\ entry' = [entry EXCEPT ![c] = (@ \ Overlays!None) \cup {part}]
            /\ old' = old \ {c} /\ woken' = TRUE
            /\ UNCHANGED <<pending, waiter, at, late, taken>>
      BY <1>1 DEF Overlays!StoreWrapperState
    <2>2. part \in Overlays!Parts
      BY <2>1
    <2>3. OverlayType'
      BY <2>1, <2>2, PartSets
    <2>4. \A d \in Commands : entry'[d] # Overlays!None => entry'[d] \cap ahead'[d] = {}
      BY <2>1, <2>2, PartSets DEF Overlays!None
    <2>5. at = "take" => waiter # c
      BY <2>1
    <2> QED
      BY <2>1, <2>3, <2>4, <2>5
  <1>2. ASSUME NEW c \in Commands, Overlays!Lose(c) PROVE Holds'
    BY <1>2 DEF Overlays!Lose
  <1>3. ASSUME NEW c \in Commands, Overlays!GrowOld(c) PROVE Holds'
    BY <1>3 DEF Overlays!GrowOld
  <1>4. ASSUME NEW c \in Commands, Overlays!Begin(c) PROVE Holds'
    BY <1>4 DEF Overlays!Begin
  <1>5. CASE Overlays!Register
    BY <1>5 DEF Overlays!Register
  <1>6. CASE Overlays!Check
    <2>0. entry[waiter] = Overlays!Parts => ahead[waiter] = {}
      BY <1>6 DEF Overlays!Check, Overlays!Parts, Overlays!None
    <2>1. CASE Overlays!Finish({})
      BY SMTT(30), <1>6, <2>1, PartSets, FinishStep DEF Overlays!Check
    <2>2. CASE /\ UNCHANGED <<entry, old, waiter, taken>>
               /\ \/ entry[waiter] = Overlays!Parts /\ at' = "take"
                  \/ entry[waiter] # Overlays!Parts /\ at' = "wait"
      BY <1>6, <2>0, <2>2 DEF Overlays!Check
    <2> QED
      BY <1>6, <2>1, <2>2 DEF Overlays!Check
  <1>7. CASE Overlays!Take
    <2>1. entry[waiter] \ Overlays!None \in {{}, Overlays!Parts} /\ waiter \in Commands
      BY <1>7, PartSets DEF Overlays!Take
    <2> QED
      BY ZenonT(30), <1>7, <2>1, PartSets, FinishStep DEF Overlays!Take
  <1>8. CASE Overlays!Wait
    BY <1>8 DEF Overlays!Wait
  <1>9. CASE Overlays!Deadline
    BY <1>9 DEF Overlays!Deadline
  <1>10. CASE Overlays!Collect
    <2>1. entry' \in [Commands -> Received]
          /\ \A c \in Commands : entry'[c] \in {entry[c], Overlays!None}
      BY <1>10, PartSets DEF Overlays!Collect
    <2> QED
      BY <1>10, <2>1, PartSets DEF Overlays!Collect
  <1>11. CASE UNCHANGED Overlays!vars
    BY <1>11 DEF Overlays!vars
  <1> QED
    BY <1>1, <1>2, <1>3, <1>4, <1>5, <1>6, <1>7, <1>8, <1>9, <1>10, <1>11
       DEF Overlays!Next, Overlays!Worker

----------------------------------------------------------------------------
(* The stored sign-in (Credentials) *)

Tokens == SignIns!Tokens

Jobs ==
  [at : {"idle", "locking", "recheck", "send", "compare", "refused", "failed", "mark",
         "write", "fill"},
   sent : Tokens \cup {SignIns!NoToken}, retried : BOOLEAN,
   write : SignIns!CredsType, seen : Tokens \cup {SignIns!NoToken}]

SignInType ==
  /\ store \in SignIns!CredsType
  /\ lock \in Procs \cup {SignIns!NoOne}
  /\ job \in [Procs -> Jobs]
  /\ memory \in [Procs -> Tokens \cup {SignIns!NoToken}]
  /\ signIn \in {"idle", "filling"}
  /\ faults \in 0..MaxFaults
  /\ live \in Seq(Tokens) /\ SignIns!Login <= MaxLogins
  /\ signIn = "filling" => SignIns!Login > 0
  /\ \A n \in 1..SignIns!Login : live[n].login = n
  /\ refusals \in [Procs -> [Tokens -> Nat]]

FlagType == raced \in BOOLEAN /\ spilt \in BOOLEAN

\* A process has sent a token, and may have something to store.
Sent(p) == job[p].at \in {"send", "compare", "refused", "failed", "mark", "write", "fill"}

Stores(p) == job[p].at \in {"compare", "write", "fill"}

\* The server has given the token out.
Issued(t) ==
  t \in Tokens /\ t.login \in 1..SignIns!Login /\ t.use <= live[t.login].use

\* No token is used, stored or about to be that was not given out, and a token
\* that is used has a successor.
KnownInv ==
  /\ SignIns!Loads => Issued(store.token) /\ (~store.fresh => store.token.use < MaxUses)
  /\ \A p \in Procs :
       /\ Sent(p) => Issued(job[p].sent) /\ job[p].sent.use < MaxUses
       /\ Stores(p) => /\ Issued(job[p].write.token)
                       /\ job[p].write.fresh \/ job[p].write.token.use < MaxUses
       /\ job[p].at = "compare" => /\ job[p].write.token = SignIns!Successor(job[p].sent)
                                   /\ ~job[p].write.refused
       /\ job[p].at \in {"write", "fill"} =>
            job[p].seen \in Tokens /\ job[p].write.token.login = job[p].seen.login
  /\ \A p \in Procs : \A t \in Tokens : refusals[p][t] > 0 => Issued(t)

\* The token is to be stored for the first time: a process holds the server's
\* answer, or autter login has truncated the file.
Answered(p) == Stores(p) /\ ~job[p].write.refused

FirstToken == [login |-> SignIns!Login, use |-> 0]

Unstored(t) ==
  \/ \E p \in Procs : Answered(p) /\ job[p].write.token = t
  \/ signIn = "filling" /\ t = FirstToken

\* The server accepts it, one process holds it, and no one has used it.
UnstoredInv ==
  /\ \A p \in Procs : Answered(p) => /\ live[job[p].write.token.login] = job[p].write.token
                                     /\ job[p].write.token.use > 0
  /\ signIn = "filling" => live[SignIns!Login] = FirstToken
  /\ \A p, q \in Procs :
       Answered(p) /\ Answered(q) /\ job[p].write.token = job[q].write.token => p = q
  /\ SignIns!Loads => ~Unstored(store.token)
  /\ \A p \in Procs :
       /\ Sent(p) => ~Unstored(job[p].sent)
       /\ \A t \in Tokens : Unstored(t) => refusals[p][t] = 0

\* What is marked as refused, or about to be, has been refused.
RefusedInv ==
  /\ SignIns!MarkedWasRefused
  /\ \A p \in Procs :
       /\ job[p].at \in {"refused", "mark"} => live[job[p].sent.login] # job[p].sent
       /\ job[p].at \in {"write", "fill"} /\ job[p].write.refused =>
            /\ job[p].write.token = job[p].sent /\ job[p].seen = job[p].sent
            /\ live[job[p].sent.login] # job[p].sent

\* A process that was refused a token that is still stored without a mark
\* remembers it, or is about to mark it.
Once(p) ==
  /\ \A t \in Tokens : refusals[p][t] <= 1
  /\ job[p].at = "send" => refusals[p][job[p].sent] = 0
  /\ SignIns!Loads /\ ~store.refused /\ Sent(p) /\ store.token = job[p].sent => ~store.fresh
  /\ SignIns!Loads /\ ~store.refused /\ refusals[p][store.token] > 0 =>
       \/ job[p].at \in {"idle", "locking", "recheck"} /\ memory[p] = store.token
       \/ /\ job[p].at \in {"refused", "mark", "write", "fill"}
          /\ job[p].sent = store.token
          /\ job[p].at \in {"write", "fill"} => job[p].write.refused

OnceInv == \A p \in Procs : Once(p)

\* Unless a comparison was outdated, one writer at a time fills the file it
\* truncated, with a token of the latest login.
Filling(p) == job[p].at = "fill"

RaceInv ==
  ~raced =>
    /\ SignIns!LatestLoginStays
    /\ signIn = "filling" => store = SignIns!Torn /\ \A p \in Procs : ~Filling(p)
    /\ \A p \in Procs :
         Filling(p) => store = SignIns!Torn /\ job[p].write.token.login = SignIns!Login
    /\ \A p, q \in Procs : Filling(p) /\ Filling(q) => p = q

\* The server accepts the token, or a process is about to store its successor.
Works(t) ==
  \/ live[t.login] = t
  \/ \E p \in Procs : /\ job[p].at \in {"compare", "write"} /\ job[p].sent = t
                      /\ job[p].write.token = live[t.login]

WorksInv ==
  ~raced /\ ~spilt =>
    /\ SignIns!Loads => Works(store.token)
    /\ \A p \in Procs : Filling(p) => Works(job[p].write.token)

SignInsHold ==
  SignInType /\ FlagType /\ KnownInv /\ UnstoredInv /\ RefusedInv /\ OnceInv /\ RaceInv /\ WorksInv

USE ServicesAssumption

Creds == SignIns!CredsType

LEMMA TokenFacts ==
  /\ SignIns!NoToken \notin Tokens
  /\ \A t \in Tokens : t.login \in 1..MaxLogins /\ t.use \in 0..MaxUses
  /\ \A t, u \in Tokens : t.login = u.login /\ t.use = u.use => t = u
  /\ \A n \in 1..MaxLogins, k \in 0..MaxUses :
       LET t == [login |-> n, use |-> k] IN t \in Tokens /\ t.login = n /\ t.use = k
  /\ \A t \in Tokens :
       LET u == SignIns!Successor(t) IN
       u.login = t.login /\ u.use = t.use + 1 /\ (t.use < MaxUses => u \in Tokens)
  <1> USE DEF Tokens, SignIns!Tokens, SignIns!NoToken, SignIns!Successor
  <1>1. SignIns!NoToken \notin Tokens
    OBVIOUS
  <1>2. \A t, u \in Tokens : t.login = u.login /\ t.use = u.use => t = u
    OBVIOUS
  <1>3. \A t \in Tokens :
          LET u == SignIns!Successor(t) IN
          u.login = t.login /\ u.use = t.use + 1 /\ (t.use < MaxUses => u \in Tokens)
    OBVIOUS
  <1> QED
    BY <1>1, <1>2, <1>3

LEMMA CredsFacts ==
  /\ SignIns!None \in Creds /\ SignIns!None.token = SignIns!NoToken
  /\ SignIns!None # SignIns!Torn
  /\ SignIns!Torn \in Creds /\ SignIns!Torn.token = SignIns!NoToken
  /\ \A c \in Creds : /\ c.token \in Tokens \cup {SignIns!NoToken}
                      /\ c.fresh \in BOOLEAN /\ c.refused \in BOOLEAN
                      /\ c \notin {SignIns!None, SignIns!Torn} <=> c.token \in Tokens
  /\ \A t \in Tokens, f, r \in BOOLEAN :
       LET c == SignIns!Creds(t, f, r) IN
       c \in Creds /\ c.token = t /\ c.fresh = f /\ c.refused = r
  /\ \A c \in Creds : c.token \in Tokens =>
       /\ LET d == [c EXCEPT !.fresh = FALSE] IN
          d \in Creds /\ d.token = c.token /\ d.fresh = FALSE /\ d.refused = c.refused
       /\ LET d == [c EXCEPT !.refused = TRUE] IN
          d \in Creds /\ d.token = c.token /\ d.fresh = c.fresh /\ d.refused = TRUE
  <1> USE DEF Creds, SignIns!CredsType, SignIns!None, SignIns!Torn, SignIns!Creds, Tokens
  <1>0. SignIns!NoToken \notin Tokens
    BY TokenFacts
  <1>1. \A c \in Creds : /\ c.token \in Tokens \cup {SignIns!NoToken}
                         /\ c.fresh \in BOOLEAN /\ c.refused \in BOOLEAN
                         /\ c \notin {SignIns!None, SignIns!Torn} <=> c.token \in Tokens
    <2> SUFFICES ASSUME NEW c \in Creds
                 PROVE  /\ c.token \in Tokens \cup {SignIns!NoToken}
                        /\ c.fresh \in BOOLEAN /\ c.refused \in BOOLEAN
                        /\ c \notin {SignIns!None, SignIns!Torn} <=> c.token \in Tokens
      OBVIOUS
    <2>1. CASE c \in [token : Tokens, fresh : BOOLEAN, refused : BOOLEAN]
      <3>1. c.token \in Tokens /\ c.fresh \in BOOLEAN /\ c.refused \in BOOLEAN
        BY <2>1
      <3>2. c # SignIns!None /\ c # SignIns!Torn
        BY <1>0, <3>1
      <3> QED
        BY <3>1, <3>2
    <2>2. CASE c = SignIns!None
      BY <2>2, <1>0
    <2>3. CASE c = SignIns!Torn
      BY <2>3, <1>0
    <2> QED
      BY <2>1, <2>2, <2>3
  <1>2. \A t \in Tokens, f, r \in BOOLEAN :
          LET c == SignIns!Creds(t, f, r) IN
          c \in Creds /\ c.token = t /\ c.fresh = f /\ c.refused = r
    OBVIOUS
  <1>3. \A c \in Creds : c.token \in Tokens =>
       /\ LET d == [c EXCEPT !.fresh = FALSE] IN
          d \in Creds /\ d.token = c.token /\ d.fresh = FALSE /\ d.refused = c.refused
       /\ LET d == [c EXCEPT !.refused = TRUE] IN
          d \in Creds /\ d.token = c.token /\ d.fresh = c.fresh /\ d.refused = TRUE
    <2> SUFFICES ASSUME NEW c \in [token : Tokens, fresh : BOOLEAN, refused : BOOLEAN]
                 PROVE  /\ LET d == [c EXCEPT !.fresh = FALSE] IN
                           d \in Creds /\ d.token = c.token /\ d.fresh = FALSE /\ d.refused = c.refused
                        /\ LET d == [c EXCEPT !.refused = TRUE] IN
                           d \in Creds /\ d.token = c.token /\ d.fresh = c.fresh /\ d.refused = TRUE
      BY <1>0
    <2> QED
      OBVIOUS
  <1>4. /\ SignIns!None \in Creds /\ SignIns!None.token = SignIns!NoToken
        /\ SignIns!Torn \in Creds /\ SignIns!Torn.token = SignIns!NoToken
        /\ SignIns!None # SignIns!Torn
    OBVIOUS
  <1> QED
    <2> HIDE DEF Creds, SignIns!CredsType, SignIns!None, SignIns!Torn, SignIns!Creds, Tokens
    <2> QED
      BY <1>1, <1>2, <1>3, <1>4

LEMMA LoadsFact ==
  ASSUME SignInType
  PROVE  SignIns!Loads <=> store.token \in Tokens
  BY CredsFacts DEF SignInType, SignIns!Loads, Creds

LEMMA LoginFacts ==
  ASSUME SignInType
  PROVE  /\ SignIns!Login \in Nat /\ SignIns!Login <= MaxLogins
         /\ \A n \in 1..SignIns!Login : live[n] \in Tokens
  BY DEF SignInType, SignIns!Login

Steps == {"idle", "locking", "recheck", "send", "compare", "refused", "failed", "mark",
          "write", "fill"}

\* What a process's call becomes; the others' calls stay.
Moves(p, at1, sent1, write1, seen1) ==
  /\ job' \in [Procs -> Jobs]
  /\ \A q \in Procs : q # p => job'[q] = job[q]
  /\ job'[p].at = at1 /\ job'[p].sent = sent1 /\ job'[p].write = write1 /\ job'[p].seen = seen1

LEMMA JobFacts ==
  ASSUME SignInType, NEW p \in Procs
  PROVE  /\ job[p] \in Jobs
         /\ job[p].at \in Steps /\ job[p].sent \in Tokens \cup {SignIns!NoToken}
         /\ job[p].write \in Creds /\ job[p].seen \in Tokens \cup {SignIns!NoToken}
         /\ job[p].retried \in BOOLEAN
  BY DEF SignInType, Jobs, Steps, Creds

LEMMA GoToStep ==
  ASSUME SignInType, NEW p \in Procs, NEW step \in Steps, SignIns!GoTo(p, step)
  PROVE  Moves(p, step, job[p].sent, job[p].write, job[p].seen)
  <1>1. [job[p] EXCEPT !.at = step] \in Jobs
    BY JobFacts DEF Jobs, Steps
  <1> QED
    BY <1>1, JobFacts DEF SignInType, SignIns!GoTo, Moves, Jobs

LEMMA ReturnStep ==
  ASSUME SignInType, NEW p \in Procs, SignIns!Return(p)
  PROVE  /\ Moves(p, "idle", SignIns!NoToken, SignIns!None, SignIns!NoToken)
         /\ lock' \in Procs \cup {SignIns!NoOne}
  <1>1. SignIns!Idle \in Jobs
    BY CredsFacts DEF Jobs, SignIns!Idle, Creds
  <1> QED
    BY <1>1 DEF SignInType, SignIns!Return, Moves, SignIns!Idle

LEMMA SendStep ==
  ASSUME SignInType, NEW p \in Procs, NEW t \in Tokens,
         \/ job' = [job EXCEPT ![p].at = "send", ![p].sent = t]
         \/ job' = [job EXCEPT ![p].at = "send", ![p].sent = t, ![p].retried = TRUE]
  PROVE  Moves(p, "send", t, job[p].write, job[p].seen)
  <1>1. /\ [job[p] EXCEPT !.at = "send", !.sent = t] \in Jobs
        /\ [job[p] EXCEPT !.at = "send", !.sent = t, !.retried = TRUE] \in Jobs
    BY JobFacts DEF Jobs
  <1>2. CASE job' = [job EXCEPT ![p].at = "send", ![p].sent = t]
    BY <1>1, <1>2, JobFacts DEF SignInType, Moves, Jobs
  <1>3. CASE job' = [job EXCEPT ![p].at = "send", ![p].sent = t, ![p].retried = TRUE]
    BY <1>1, <1>3, JobFacts DEF SignInType, Moves, Jobs
  <1> QED
    BY <1>2, <1>3

LEMMA AnswerStep ==
  ASSUME SignInType, NEW p \in Procs, NEW c \in Creds,
         job' = [job EXCEPT ![p].at = "compare", ![p].write = c]
  PROVE  Moves(p, "compare", job[p].sent, c, job[p].seen)
  <1>1. [job[p] EXCEPT !.at = "compare", !.write = c] \in Jobs
    BY JobFacts DEF Jobs, Creds
  <1> QED
    BY <1>1, JobFacts DEF SignInType, Moves, Jobs

LEMMA ToWriteStep ==
  ASSUME SignInType, NEW p \in Procs, NEW c \in Creds, SignIns!ToWrite(p, c)
  PROVE  Moves(p, "write", job[p].sent, c, store.token)
  <1>0. store.token \in Tokens \cup {SignIns!NoToken}
    BY CredsFacts DEF SignInType, Creds
  <1>1. [job[p] EXCEPT !.at = "write", !.write = c, !.seen = store.token] \in Jobs
    BY <1>0, JobFacts DEF Jobs, Creds
  <1> QED
    BY <1>1, JobFacts DEF SignInType, SignIns!ToWrite, Moves, Jobs

\* The type of the state as Credentials states it.
LEMMA SignInTypes == SignInType /\ FlagType => SignIns!TypeOK
  BY JobFacts DEF SignInType, FlagType, SignIns!TypeOK, Steps, Creds, Tokens

LEMMA SignInTypeInit == SignIns!Init => SignInType
  <1> SUFFICES ASSUME SignIns!Init PROVE SignInType
    OBVIOUS
  <1>1. SignIns!Idle \in Jobs
    BY CredsFacts DEF Jobs, SignIns!Idle, Creds
  <1>2. live \in Seq(Tokens) /\ SignIns!Login = 0
    BY DEF SignIns!Init, SignIns!Login
  <1>3. refusals \in [Procs -> [Tokens -> Nat]]
    BY DEF SignIns!Init, Tokens
  <1>4. store \in SignIns!CredsType
    BY CredsFacts DEF SignIns!Init, Creds
  <1>5. /\ job \in [Procs -> Jobs] /\ memory \in [Procs -> Tokens \cup {SignIns!NoToken}]
        /\ lock = SignIns!NoOne /\ signIn = "idle" /\ faults = 0 /\ raced = FALSE /\ spilt = FALSE
    BY <1>1 DEF SignIns!Init
  <1> QED
    BY <1>2, <1>3, <1>4, <1>5 DEF SignInType

LEMMA SignInTypeNext ==
  ASSUME SignInType, KnownInv, [SignIns!Next]_(SignIns!vars)
  PROVE  SignInType'
  <1> USE DEF SignIns!history, SignIns!Login
  <1>1. ASSUME NEW p \in Procs, SignIns!Call(p) PROVE SignInType'
    BY <1>1, GoToStep DEF SignIns!Call, SignInType, Moves, Steps
  <1>2. ASSUME NEW p \in Procs, SignIns!GetLock(p) PROVE SignInType'
    BY <1>2, GoToStep DEF SignIns!GetLock, SignInType, Moves, Steps
  <1>3. ASSUME NEW p \in Procs, SignIns!Recheck(p) PROVE SignInType'
    BY <1>3, ReturnStep, SendStep, LoadsFact
       DEF SignIns!Recheck, SignIns!Refreshable, SignInType, Moves
  <1>4. ASSUME NEW p \in Procs, SignIns!Refresh(p) PROVE SignInType'
    <2>1. /\ job[p].sent \in Tokens /\ job[p].sent.login \in 1..SignIns!Login
          /\ SignIns!Successor(job[p].sent) \in Tokens
          /\ SignIns!Successor(job[p].sent).login = job[p].sent.login
      BY <1>4, TokenFacts DEF SignIns!Refresh, SignIns!At, KnownInv, Sent, Issued
    <2> DEFINE t == job[p].sent
               c == SignIns!Creds(SignIns!Successor(t), TRUE, FALSE)
    <2>2. c \in Creds
      BY <2>1, CredsFacts
    <2>3. CASE /\ live[t.login] = t
               /\ live' = [live EXCEPT ![t.login] = SignIns!Successor(t)]
               /\ job' = [job EXCEPT ![p].at = "compare", ![p].write = c]
               /\ UNCHANGED refusals
      <3>1. live' \in Seq(Tokens) /\ Len(live') = Len(live)
            /\ \A n \in 1..Len(live) : live'[n].login = n
        BY <2>1, <2>3 DEF SignInType
      <3> QED
        BY <1>4, <2>2, <2>3, <3>1, AnswerStep DEF SignIns!Refresh, SignInType, Moves
    <2>4. CASE /\ job' = [job EXCEPT ![p].at = "refused"]
               /\ refusals' = [refusals EXCEPT ![p][t] = @ + 1]
               /\ UNCHANGED live
      <3>1. refusals' \in [Procs -> [Tokens -> Nat]]
        <4>1. refusals[p] \in [Tokens -> Nat] /\ refusals[p][t] \in Nat
          BY <2>1 DEF SignInType
        <4>2. [refusals[p] EXCEPT ![t] = @ + 1] \in [Tokens -> Nat]
          BY <2>1, <4>1
        <4> QED
          BY <2>1, <2>4, <4>2 DEF SignInType
      <3> QED
        BY <1>4, <2>4, <3>1, GoToStep DEF SignIns!Refresh, SignIns!GoTo, SignInType, Moves, Steps
    <2> QED
      BY <1>4, <2>3, <2>4 DEF SignIns!Refresh
  <1>5. ASSUME NEW p \in Procs, SignIns!LoseAnswer(p) PROVE SignInType'
    <2>1. /\ job[p].sent \in Tokens /\ job[p].sent.login \in 1..SignIns!Login
          /\ SignIns!Successor(job[p].sent) \in Tokens
          /\ SignIns!Successor(job[p].sent).login = job[p].sent.login
      BY <1>5, TokenFacts DEF SignIns!LoseAnswer, SignIns!At, KnownInv, Sent, Issued
    <2>2. live' \in Seq(Tokens) /\ Len(live') = Len(live)
          /\ \A n \in 1..Len(live) : live'[n].login = n
      <3>1. CASE live' = live
        BY <3>1 DEF SignInType
      <3>2. CASE live' = [live EXCEPT ![job[p].sent.login] = SignIns!Successor(job[p].sent)]
        BY <2>1, <3>2 DEF SignInType
      <3> QED
        BY <1>5, <3>1, <3>2 DEF SignIns!LoseAnswer
    <2>3. Moves(p, "failed", job[p].sent, job[p].write, job[p].seen)
      BY <1>5, GoToStep DEF SignIns!LoseAnswer, Steps
    <2>4. faults' \in 0..MaxFaults
      BY <1>5, ServicesAssumption DEF SignIns!LoseAnswer, SignIns!Fault, SignInType
    <2>5. UNCHANGED <<store, lock, memory, signIn, refusals>>
      BY <1>5 DEF SignIns!LoseAnswer
    <2> QED
      BY <2>2, <2>3, <2>4, <2>5 DEF SignInType, Moves, SignIns!Login
  <1>6. ASSUME NEW p \in Procs, SignIns!Compare(p) PROVE SignInType'
    BY <1>6, ReturnStep, ToWriteStep, JobFacts DEF SignIns!Compare, SignInType, Moves
  <1>7. ASSUME NEW p \in Procs, SignIns!Reload(p) PROVE SignInType'
    BY <1>7, ReturnStep, SendStep, GoToStep, LoadsFact
       DEF SignIns!Reload, SignInType, Moves, Steps
  <1>8. ASSUME NEW p \in Procs, SignIns!Mark(p) PROVE SignInType'
    <2>1. CASE SignIns!Loads /\ SignIns!ToWrite(p, [store EXCEPT !.refused = TRUE])
               /\ UNCHANGED <<lock, memory>>
      <3>1. [store EXCEPT !.refused = TRUE] \in Creds
        BY <2>1, CredsFacts, LoadsFact DEF SignInType, Creds
      <3> QED
        BY <1>8, <2>1, <3>1, ToWriteStep DEF SignIns!Mark, SignInType, Moves
    <2>2. CASE SignIns!Return(p)
               /\ memory' = IF store = SignIns!Torn THEN [memory EXCEPT ![p] = job[p].sent]
                                                   ELSE memory
      BY <1>8, <2>2, ReturnStep, JobFacts DEF SignIns!Mark, SignInType, Moves
    <2> QED
      BY <1>8, <2>1, <2>2 DEF SignIns!Mark
  <1>9. ASSUME NEW p \in Procs, SignIns!Truncate(p) PROVE SignInType'
    BY <1>9, GoToStep, CredsFacts DEF SignIns!Truncate, SignInType, Moves, Steps, Creds
  <1>10. ASSUME NEW p \in Procs, SignIns!Fill(p) PROVE SignInType'
    BY <1>10, ReturnStep, JobFacts DEF SignIns!Fill, SignInType, Moves, Creds
  <1>11. ASSUME NEW p \in Procs, SignIns!CannotWrite(p) PROVE SignInType'
    <2>1. memory' \in [Procs -> Tokens \cup {SignIns!NoToken}]
      <3>1. CASE memory' = memory
        BY <3>1 DEF SignInType
      <3>2. CASE memory' = [memory EXCEPT ![p] = job[p].sent]
        BY <3>2, JobFacts DEF SignInType
      <3> QED
        BY <1>11, <3>1, <3>2 DEF SignIns!CannotWrite
    <2> QED
      BY <1>11, <2>1, ReturnStep DEF SignIns!CannotWrite, SignInType, Moves, SignIns!Fault
  <1>12. ASSUME NEW p \in Procs, SignIns!Crash(p) PROVE SignInType'
    <2>1. refusals' \in [Procs -> [Tokens -> Nat]]
      BY <1>12 DEF SignIns!Crash, SignInType, Tokens
    <2> QED
      BY <1>12, <2>1, ReturnStep DEF SignIns!Crash, SignInType, Moves, SignIns!Fault
  <1>13. CASE SignIns!SignIn
    <2>1. [login |-> SignIns!Login + 1, use |-> 0] \in Tokens
      BY <1>13, TokenFacts, LoginFacts DEF SignIns!SignIn
    <2>2. live' \in Seq(Tokens) /\ Len(live') = Len(live) + 1
          /\ \A n \in 1..Len(live) + 1 : live'[n].login = n
      BY <1>13, <2>1 DEF SignIns!SignIn, SignInType
    <2>3. Len(live) + 1 <= MaxLogins /\ Len(live) \in Nat
      BY <1>13, LoginFacts DEF SignIns!SignIn
    <2> QED
      <3>1. SignIns!Login' = Len(live) + 1
        BY <2>2
      <3>2. SignIns!Login' <= MaxLogins /\ SignIns!Login' > 0
            /\ \A n \in 1..SignIns!Login' : live'[n].login = n
        BY <2>2, <2>3, <3>1
      <3>3. UNCHANGED <<lock, job, memory, faults, refusals>> /\ store' = SignIns!Torn
            /\ signIn' = "filling"
        BY <1>13 DEF SignIns!SignIn
      <3> QED
        BY <2>2, <3>2, <3>3, CredsFacts DEF SignInType, Creds
  <1>14. CASE SignIns!SignInFill
    <2>1. FirstToken \in Tokens
      BY <1>14, TokenFacts, LoginFacts DEF SignIns!SignInFill, SignInType, FirstToken
    <2>2. SignIns!Creds(FirstToken, TRUE, FALSE) \in Creds
      BY <2>1, CredsFacts
    <2> QED
      BY <1>14, <2>2 DEF SignIns!SignInFill, SignInType, FirstToken, Creds
  <1>15. CASE SignIns!SignOut
    BY <1>15, CredsFacts DEF SignIns!SignOut, SignInType, Creds
  <1>16. CASE SignIns!Expire
    BY <1>16, CredsFacts, LoadsFact DEF SignIns!Expire, SignInType, Creds
  <1>17. CASE UNCHANGED SignIns!vars
    BY <1>17 DEF SignIns!vars, SignInType
  <1> QED
    BY <1>1, <1>2, <1>3, <1>4, <1>5, <1>6, <1>7, <1>8, <1>9, <1>10, <1>11, <1>12, <1>13,
       <1>14, <1>15, <1>16, <1>17 DEF SignIns!Next, SignIns!Run

----------------------------------------------------------------------------
(* Which tokens are used and stored *)

StoredInv == KnownInv /\ UnstoredInv /\ RefusedInv

\* A call that has nothing to store and sent nothing new changes nothing.
LEMMA Withdraws ==
  ASSUME SignInType, StoredInv, UNCHANGED <<store, signIn, live>>,
         \A p \in Procs : \A t \in Tokens : refusals'[p][t] \in {refusals[p][t], 0},
         \A p \in Procs :
           \/ job'[p] = job[p]
           \/ /\ ~Stores(p)'
              /\ Sent(p)' => Sent(p) /\ job'[p].sent = job[p].sent
              /\ job'[p].at \in {"refused", "mark"} => job[p].at \in {"refused", "mark"}
  PROVE  StoredInv'
  <1> USE DEF StoredInv, SignIns!Login, Stores, Sent
  <1>1. \A t : Issued(t)' <=> Issued(t)
    BY DEF Issued
  <1>2. \A t : Unstored(t)' => Unstored(t)
    BY DEF Unstored, Answered, FirstToken
  <1>3. KnownInv'
    <2>1. \A p \in Procs : \A t \in Tokens : refusals'[p][t] > 0 => Issued(t)'
      BY <1>1 DEF KnownInv
    <2>2. ASSUME NEW p \in Procs
          PROVE  /\ Sent(p)' => Issued(job[p].sent)' /\ job'[p].sent.use < MaxUses
                 /\ Stores(p)' => job'[p] = job[p] /\ Issued(job[p].write.token)'
      BY <1>1 DEF KnownInv
    <2> QED
      BY <1>1, <2>1, <2>2 DEF KnownInv, SignIns!Loads
  <1>4. UnstoredInv'
    <2>1. \A p \in Procs : Answered(p)' => Answered(p) /\ job'[p] = job[p]
      BY DEF Answered
    <2>2. \A p \in Procs : Sent(p)' => ~Unstored(job[p].sent)'
      BY <1>2 DEF UnstoredInv
    <2>3. \A p \in Procs : \A t \in Tokens : Unstored(t)' => refusals'[p][t] = 0
      BY <1>2 DEF UnstoredInv
    <2>4. /\ \A p \in Procs : Answered(p)' => /\ live'[job'[p].write.token.login] = job'[p].write.token
                                            /\ job'[p].write.token.use > 0
          /\ \A p, q \in Procs :
               Answered(p)' /\ Answered(q)' /\ job'[p].write.token = job'[q].write.token => p = q
      BY <2>1 DEF UnstoredInv
    <2> QED
      BY <1>2, <2>2, <2>3, <2>4 DEF UnstoredInv, SignIns!Loads, FirstToken
  <1>5. RefusedInv'
    BY DEF RefusedInv, SignIns!MarkedWasRefused, SignIns!Loads
  <1> QED
    BY <1>3, <1>4, <1>5

\* A call sends what is stored.
LEMMA Sends ==
  ASSUME SignInType, StoredInv, NEW p \in Procs, SignIns!Loads, ~store.fresh,
         Moves(p, "send", store.token, job[p].write, job[p].seen),
         UNCHANGED <<store, signIn, live, refusals>>
  PROVE  StoredInv'
  <1> USE DEF StoredInv, SignIns!Login, Moves
  <1>1. \A t : Issued(t)' <=> Issued(t)
    BY DEF Issued
  <1>2. \A t : Unstored(t)' => Unstored(t)
    BY DEF Unstored, Answered, FirstToken, Stores
  <1>3. KnownInv'
    BY <1>1 DEF KnownInv, SignIns!Loads, Sent, Stores
  <1>4. UnstoredInv'
    BY <1>2 DEF UnstoredInv, SignIns!Loads, Answered, FirstToken, Sent, Stores
  <1>5. RefusedInv'
    BY DEF RefusedInv, SignIns!MarkedWasRefused, SignIns!Loads
  <1> QED
    BY <1>3, <1>4, <1>5

\* The server rotates a token that was sent.
LEMMA Rotates ==
  ASSUME SignInType, StoredInv, NEW p \in Procs, Sent(p), NEW t \in Tokens, t = job[p].sent,
         live[t.login] = t, live' = [live EXCEPT ![t.login] = SignIns!Successor(t)]
  PROVE  /\ SignIns!Login' = SignIns!Login
         /\ SignIns!Successor(t) \in Tokens /\ Issued(SignIns!Successor(t))'
         /\ ~Issued(SignIns!Successor(t))
         /\ live'[t.login] = SignIns!Successor(t)
         /\ SignIns!Successor(t).login = t.login /\ SignIns!Successor(t).use = t.use + 1
         /\ \A u \in Tokens : Issued(u) => Issued(u)'
         /\ \A u \in Tokens : Issued(u) /\ live[u.login] # u => live'[u.login] # u
         /\ \A q \in Procs : Answered(q) => live'[job[q].write.token.login] = job[q].write.token
         /\ signIn = "filling" => live'[SignIns!Login] = FirstToken
  <1> USE DEF StoredInv, SignIns!Login
  <1>1. t.login \in 1..Len(live) /\ t.use \in Nat /\ SignIns!Successor(t) \in Tokens
        /\ SignIns!Successor(t).login = t.login /\ SignIns!Successor(t).use = t.use + 1
    BY TokenFacts DEF KnownInv, Issued
  <1>2. /\ Len(live') = Len(live) /\ live'[t.login] = SignIns!Successor(t)
        /\ \A n \in 1..Len(live) : n # t.login => live'[n] = live[n]
    BY <1>1 DEF SignInType
  <1>3. \A u \in Tokens : u.login \in Nat /\ u.use \in Nat
    BY TokenFacts
  <1>4. ~Issued(SignIns!Successor(t)) /\ Issued(SignIns!Successor(t))'
    BY <1>1, <1>2 DEF Issued
  <1>5. \A u \in Tokens : Issued(u) => Issued(u)'
    BY <1>1, <1>2, <1>3 DEF Issued
  <1>6. \A u \in Tokens : Issued(u) /\ live[u.login] # u => live'[u.login] # u
    BY <1>1, <1>2, <1>3 DEF Issued
  <1>7. ASSUME NEW q \in Procs, Answered(q)
        PROVE  live'[job[q].write.token.login] = job[q].write.token
    <2>1. Unstored(job[q].write.token)
      BY <1>7 DEF Unstored
    <2>2. live[job[q].write.token.login] = job[q].write.token
          /\ job[q].write.token.login \in 1..Len(live)
      BY <1>7 DEF UnstoredInv, KnownInv, Issued, Answered
    <2>3. job[q].write.token # t
      BY <2>1 DEF UnstoredInv
    <2> QED
      BY <1>2, <2>2, <2>3
  <1>8. ASSUME signIn = "filling" PROVE live'[SignIns!Login] = FirstToken
    <2>1. Unstored(FirstToken) /\ live[Len(live)] = FirstToken /\ Len(live) \in 1..Len(live)
      BY <1>8 DEF Unstored, UnstoredInv, SignInType
    <2>2. FirstToken # t
      BY <2>1 DEF UnstoredInv
    <2> QED
      BY <1>2, <2>1, <2>2
  <1> QED
    BY <1>1, <1>2, <1>4, <1>5, <1>6, <1>7, <1>8

\* The server's answer reaches the process.
LEMMA Answers ==
  ASSUME SignInType, StoredInv, NEW p \in Procs, job[p].at = "send",
         NEW t \in Tokens, t = job[p].sent, NEW u \in Tokens, u = SignIns!Successor(t),
         live[t.login] = t, live' = [live EXCEPT ![t.login] = u],
         NEW c \in Creds, c.token = u, c.fresh = TRUE, c.refused = FALSE,
         Moves(p, "compare", t, c, job[p].seen), UNCHANGED <<store, signIn, refusals>>
  PROVE  StoredInv'
  <1>1. Sent(p) /\ Issued(t) /\ ~Stores(p) /\ t.use < MaxUses
    BY DEF StoredInv, KnownInv, Sent, Stores
  <1>2. /\ SignIns!Login' = SignIns!Login /\ Issued(u)' /\ ~Issued(u)
        /\ live'[t.login] = u /\ u.login = t.login /\ u.use = t.use + 1
        /\ \A v \in Tokens : Issued(v) => Issued(v)'
        /\ \A v \in Tokens : Issued(v) /\ live[v.login] # v => live'[v.login] # v
        /\ \A q \in Procs : Answered(q) => live'[job[q].write.token.login] = job[q].write.token
        /\ signIn = "filling" => live'[SignIns!Login] = FirstToken
    <2>1. /\ SignIns!Login' = SignIns!Login /\ Issued(u)' /\ ~Issued(u)
          /\ live'[t.login] = u /\ u.login = t.login /\ u.use = t.use + 1
      BY ZenonT(30), <1>1, Rotates
    <2>2. /\ \A v \in Tokens : Issued(v) => Issued(v)'
          /\ \A v \in Tokens : Issued(v) /\ live[v.login] # v => live'[v.login] # v
      BY <1>1, Rotates
    <2>3. /\ \A q \in Procs : Answered(q) => live'[job[q].write.token.login] = job[q].write.token
          /\ signIn = "filling" => live'[SignIns!Login] = FirstToken
      BY <1>1, Rotates
    <2> QED
      BY <2>1, <2>2, <2>3
  <1>3. \A v : Issued(v) => v \in Tokens
    BY DEF Issued
  <1>4. KnownInv'
    <2>1. \A q \in Procs : /\ Sent(q)' => Issued(job[q].sent)' /\ job'[q].sent.use < MaxUses
                           /\ Stores(q)' => Issued(job[q].write.token)'
      BY <1>1, <1>2, <1>3 DEF StoredInv, KnownInv, Moves, Sent, Stores
    <2>2. \A q \in Procs :
            /\ Stores(q)' => job'[q].write.fresh \/ job'[q].write.token.use < MaxUses
            /\ job'[q].at = "compare" => /\ job'[q].write.token = SignIns!Successor(job'[q].sent)
                                         /\ ~job'[q].write.refused
            /\ job'[q].at \in {"write", "fill"} =>
                 job'[q].seen \in Tokens /\ job'[q].write.token.login = job'[q].seen.login
      BY DEF StoredInv, KnownInv, Moves, Stores
    <2>3. SignIns!Loads' => Issued(store.token)' /\ (~store'.fresh => store'.token.use < MaxUses)
      BY <1>2, <1>3 DEF StoredInv, KnownInv, SignIns!Loads
    <2>4. \A q \in Procs : \A v \in Tokens : refusals'[q][v] > 0 => Issued(v)'
      BY <1>2 DEF StoredInv, KnownInv
    <2> QED
      BY <2>1, <2>2, <2>3, <2>4 DEF KnownInv
  <1>5. \A q \in Procs : q # p => /\ Answered(q)' <=> Answered(q)
                                  /\ Sent(q)' <=> Sent(q)
                                  /\ job'[q] = job[q]
    BY DEF Moves, Answered, Stores, Sent
  <1>6. \A v : Unstored(v)' => Unstored(v) \/ v = u
    BY <1>2, <1>5 DEF Unstored, Moves, FirstToken
  <1>7. \A q \in Procs : Answered(q) => job[q].write.token # u
    BY <1>2 DEF StoredInv, KnownInv, Answered
  <1>8. UnstoredInv'
    <2>1. \A q \in Procs : Answered(q)' =>
            /\ live'[job'[q].write.token.login] = job'[q].write.token
            /\ job'[q].write.token.use > 0
      BY <1>2, <1>5, TokenFacts DEF StoredInv, UnstoredInv, Moves
    <2>2. \A q, r \in Procs :
            Answered(q)' /\ Answered(r)' /\ job'[q].write.token = job'[r].write.token => q = r
      BY <1>5, <1>7 DEF StoredInv, UnstoredInv, Moves
    <2>3. SignIns!Loads' => ~Unstored(store.token)'
      BY <1>2, <1>6 DEF StoredInv, UnstoredInv, KnownInv, SignIns!Loads
    <2>4. \A q \in Procs : Sent(q)' => ~Unstored(job[q].sent)'
      BY <1>1, <1>2, <1>5, <1>6 DEF StoredInv, UnstoredInv, KnownInv, Moves
    <2>5. \A q \in Procs : \A v \in Tokens : Unstored(v)' => refusals'[q][v] = 0
      BY <1>2, <1>6 DEF StoredInv, UnstoredInv, KnownInv, SignInType
    <2>6. signIn' = "filling" => live'[SignIns!Login'] = FirstToken'
      BY <1>2 DEF FirstToken
    <2> QED
      BY <2>1, <2>2, <2>3, <2>4, <2>5, <2>6 DEF UnstoredInv
  <1>9. RefusedInv'
    <2>1. SignIns!MarkedWasRefused'
      BY <1>2, <1>3 DEF StoredInv, RefusedInv, SignIns!MarkedWasRefused, SignIns!Loads, KnownInv
    <2>2. ASSUME NEW q \in Procs
          PROVE  /\ job'[q].at \in {"refused", "mark"} => live'[job'[q].sent.login] # job'[q].sent
                 /\ job'[q].at \in {"write", "fill"} /\ job'[q].write.refused =>
                      /\ job'[q].write.token = job'[q].sent /\ job'[q].seen = job'[q].sent
                      /\ live'[job'[q].sent.login] # job'[q].sent
      <3>1. CASE q = p
        BY <3>1 DEF Moves
      <3>2. CASE q # p
        BY <1>2, <1>3, <1>5, <3>2 DEF StoredInv, RefusedInv, KnownInv, Sent
      <3> QED
        BY <3>1, <3>2
    <2> QED
      BY <2>1, <2>2 DEF RefusedInv
  <1> QED
    BY <1>4, <1>8, <1>9 DEF StoredInv

\* The server rotates the token, and its answer is lost.
LEMMA LosesAnswer ==
  ASSUME SignInType, StoredInv, NEW p \in Procs, job[p].at = "send",
         NEW t \in Tokens, t = job[p].sent,
         live[t.login] = t, live' = [live EXCEPT ![t.login] = SignIns!Successor(t)],
         Moves(p, "failed", t, job[p].write, job[p].seen), UNCHANGED <<store, signIn, refusals>>
  PROVE  StoredInv'
  <1>1. Sent(p) /\ Issued(t) /\ ~Stores(p) /\ t.use < MaxUses
    BY DEF StoredInv, KnownInv, Sent, Stores
  <1>2. /\ SignIns!Login' = SignIns!Login
        /\ \A v \in Tokens : Issued(v) => Issued(v)'
        /\ \A v \in Tokens : Issued(v) /\ live[v.login] # v => live'[v.login] # v
        /\ \A q \in Procs : Answered(q) => live'[job[q].write.token.login] = job[q].write.token
        /\ signIn = "filling" => live'[SignIns!Login] = FirstToken
    BY <1>1, Rotates
  <1>3. \A v : Issued(v) => v \in Tokens
    BY DEF Issued
  <1>4. \A q \in Procs : /\ Answered(q)' <=> Answered(q)
                         /\ Sent(q)' <=> Sent(q)
                         /\ Stores(q)' <=> Stores(q)
                         /\ job'[q].sent = job[q].sent /\ job'[q].write = job[q].write
                         /\ job'[q].seen = job[q].seen
                         /\ job'[q].at \in {job[q].at, "failed"}
    BY <1>1 DEF Moves, Answered, Stores, Sent
  <1>5. \A v : Unstored(v)' => Unstored(v)
    BY <1>2, <1>4 DEF Unstored, FirstToken
  <1>6. KnownInv'
    BY <1>2, <1>3, <1>4 DEF StoredInv, KnownInv, SignIns!Loads
  <1>7. UnstoredInv'
    BY <1>2, <1>4, <1>5 DEF StoredInv, UnstoredInv, SignIns!Loads, FirstToken
  <1>8. RefusedInv'
    BY <1>2, <1>3, <1>4
       DEF StoredInv, RefusedInv, SignIns!MarkedWasRefused, SignIns!Loads, KnownInv, Sent
  <1> QED
    BY <1>6, <1>7, <1>8 DEF StoredInv

LEMMA Counts ==
  ASSUME SignInType, NEW p \in Procs, NEW t \in Tokens,
         refusals' = [refusals EXCEPT ![p][t] = @ + 1]
  PROVE  \A q \in Procs : \A v \in Tokens :
           refusals'[q][v] = IF q = p /\ v = t THEN refusals[p][t] + 1 ELSE refusals[q][v]
  <1> DEFINE row == [refusals[p] EXCEPT ![t] = @ + 1]
  <1>1. refusals \in [Procs -> [Tokens -> Nat]] /\ refusals[p] \in [Tokens -> Nat]
    BY DEF SignInType
  <1>2. \A v \in Tokens : row[v] = IF v = t THEN refusals[p][t] + 1 ELSE refusals[p][v]
    BY <1>1
  <1>3. refusals' = [refusals EXCEPT ![p] = row]
    BY <1>1
  <1> HIDE DEF row
  <1>4. refusals'[p] = row /\ \A q \in Procs : q # p => refusals'[q] = refusals[q]
    BY <1>1, <1>3
  <1> SUFFICES ASSUME NEW q \in Procs, NEW v \in Tokens
               PROVE  refusals'[q][v]
                        = IF q = p /\ v = t THEN refusals[p][t] + 1 ELSE refusals[q][v]
    OBVIOUS
  <1>5. CASE q = p
    BY <1>2, <1>4, <1>5
  <1>6. CASE q # p
    BY <1>4, <1>6
  <1> QED
    BY <1>5, <1>6

\* The server refuses the token.
LEMMA IsRefused ==
  ASSUME SignInType, StoredInv, NEW p \in Procs, job[p].at = "send",
         NEW t \in Tokens, t = job[p].sent, live[t.login] # t,
         Moves(p, "refused", t, job[p].write, job[p].seen),
         refusals' = [refusals EXCEPT ![p][t] = @ + 1], UNCHANGED <<store, signIn, live>>
  PROVE  StoredInv'
  <1>1. Sent(p) /\ Issued(t) /\ ~Stores(p) /\ t.use < MaxUses /\ ~Unstored(t)
    BY DEF StoredInv, KnownInv, UnstoredInv, Sent, Stores
  <1>2. SignIns!Login' = SignIns!Login /\ \A v : Issued(v)' <=> Issued(v)
    BY DEF Issued, SignIns!Login
  <1>3. \A q \in Procs : \A v \in Tokens :
          refusals'[q][v] = IF q = p /\ v = t THEN refusals[p][t] + 1 ELSE refusals[q][v]
    BY Counts
  <1>4. \A q \in Procs : /\ Answered(q)' <=> Answered(q)
                         /\ Sent(q)' <=> Sent(q)
                         /\ Stores(q)' <=> Stores(q)
                         /\ job'[q].sent = job[q].sent /\ job'[q].write = job[q].write
                         /\ job'[q].seen = job[q].seen
                         /\ q # p => job'[q].at = job[q].at
    BY <1>1 DEF Moves, Answered, Stores, Sent
  <1>5. \A v : Unstored(v)' => Unstored(v)
    BY <1>2, <1>4 DEF Unstored, FirstToken
  <1>6. KnownInv'
    <2>1. \A q \in Procs : \A v \in Tokens : refusals'[q][v] > 0 => Issued(v)'
      BY <1>1, <1>2, <1>3 DEF StoredInv, KnownInv
    <2>2. job'[p].at = "refused"
      BY DEF Moves
    <2>3. \A q \in Procs : job'[q].at \in {"compare", "write", "fill"} => job'[q].at = job[q].at
      BY <1>4, <2>2
    <2> QED
      BY <1>2, <1>4, <2>1, <2>3 DEF StoredInv, KnownInv, SignIns!Loads
  <1>7. UnstoredInv'
    <2>1. \A q \in Procs : \A v \in Tokens : Unstored(v)' => refusals'[q][v] = 0
      BY <1>1, <1>3, <1>5 DEF StoredInv, UnstoredInv
    <2> QED
      BY <1>2, <1>4, <1>5, <2>1 DEF StoredInv, UnstoredInv, SignIns!Loads, FirstToken
  <1>8. RefusedInv'
    BY <1>4 DEF StoredInv, RefusedInv, SignIns!MarkedWasRefused, SignIns!Loads, Moves
  <1> QED
    BY <1>6, <1>7, <1>8 DEF StoredInv

\* A call decides to store the server's answer, or the mark of a refusal.
LEMMA Decides ==
  ASSUME SignInType, StoredInv, NEW p \in Procs, NEW c \in Creds, SignIns!Loads,
         Moves(p, "write", job[p].sent, c, store.token), store.token = job[p].sent,
         \/ job[p].at = "compare" /\ c = job[p].write
         \/ job[p].at = "mark" /\ c = [store EXCEPT !.refused = TRUE],
         UNCHANGED <<store, signIn, live, refusals>>
  PROVE  StoredInv'
  <1>1. SignIns!Login' = SignIns!Login /\ \A v : Issued(v)' <=> Issued(v)
    BY DEF Issued, SignIns!Login
  <1>2. store.token \in Tokens /\ store \in Creds
    BY LoadsFact DEF SignInType, Creds
  <1>3. \/ /\ job[p].at = "compare" /\ c = job[p].write /\ Answered(p)
           /\ c.token.login = store.token.login
        \/ /\ job[p].at = "mark" /\ c.token = store.token /\ c.fresh = store.fresh /\ c.refused
    <2>1. CASE job[p].at = "compare" /\ c = job[p].write
      <3>1. job[p].write.token = SignIns!Successor(store.token) /\ ~job[p].write.refused
        BY <2>1 DEF StoredInv, KnownInv
      <3> QED
        BY <1>2, <2>1, <3>1, TokenFacts DEF Answered, Stores
    <2>2. CASE job[p].at = "mark" /\ c = [store EXCEPT !.refused = TRUE]
      BY <1>2, <2>2, CredsFacts
    <2> QED
      BY <2>1, <2>2
  <1>4. \A q \in Procs : /\ Answered(q)' <=> Answered(q)
                         /\ Sent(q)' <=> Sent(q)
                         /\ job'[q].sent = job[q].sent
                         /\ q # p \/ Answered(p) => job'[q].write = job[q].write
                         /\ q # p => job'[q] = job[q]
    BY <1>3 DEF Moves, Answered, Stores, Sent
  <1>5. \A v : Unstored(v)' => Unstored(v)
    BY <1>1, <1>4 DEF Unstored, FirstToken
  <1>6. KnownInv'
    <2>1. \A q \in Procs : Sent(q)' => Issued(job[q].sent)' /\ job'[q].sent.use < MaxUses
      BY <1>1, <1>4 DEF StoredInv, KnownInv
    <2>2. /\ Issued(c.token) /\ (c.fresh \/ c.token.use < MaxUses)
          /\ c.token.login = store.token.login
      BY <1>3 DEF StoredInv, KnownInv, Stores
    <2>3. \A q \in Procs :
            /\ Stores(q)' => /\ Issued(job[q].write.token)'
                             /\ job'[q].write.fresh \/ job'[q].write.token.use < MaxUses
            /\ job'[q].at = "compare" => /\ job'[q].write.token = SignIns!Successor(job'[q].sent)
                                         /\ ~job'[q].write.refused
            /\ job'[q].at \in {"write", "fill"} =>
                 job'[q].seen \in Tokens /\ job'[q].write.token.login = job'[q].seen.login
      BY <1>1, <1>2, <1>4, <2>2 DEF StoredInv, KnownInv, Moves, Stores
    <2> QED
      BY <1>1, <2>1, <2>3 DEF StoredInv, KnownInv, SignIns!Loads
  <1>7. UnstoredInv'
    <2>1. \A q \in Procs : Answered(q)' => Answered(q) /\ job'[q].write = job[q].write
      BY <1>4
    <2> QED
      BY <1>1, <1>4, <1>5, <2>1 DEF StoredInv, UnstoredInv, SignIns!Loads, FirstToken
  <1>8. RefusedInv'
    <2>1. /\ job'[p].at = "write" /\ job'[p].write = c /\ job'[p].sent = job[p].sent
          /\ job'[p].seen = job[p].sent
      BY DEF Moves
    <2>2. c.refused => c.token = job[p].sent /\ live[job[p].sent.login] # job[p].sent
      BY <1>3 DEF StoredInv, RefusedInv, Answered
    <2> QED
      BY <1>4, <2>1, <2>2 DEF StoredInv, RefusedInv, SignIns!MarkedWasRefused, SignIns!Loads
  <1> QED
    BY <1>6, <1>7, <1>8 DEF StoredInv

\* The file is truncated or removed, or its access token expires.
LEMMA StoreShrinks ==
  ASSUME SignInType, StoredInv, UNCHANGED <<signIn, live, refusals>>,
         SignIns!Loads' => /\ SignIns!Loads /\ store'.token = store.token
                           /\ store'.refused = store.refused
                           /\ ~store'.fresh => store'.token.use < MaxUses,
         \/ job' = job
         \/ \E p \in Procs : job[p].at = "write"
                             /\ Moves(p, "fill", job[p].sent, job[p].write, job[p].seen)
  PROVE  StoredInv'
  <1>1. SignIns!Login' = SignIns!Login /\ \A v : Issued(v)' <=> Issued(v)
    BY DEF Issued, SignIns!Login
  <1>2. \A q \in Procs : /\ job'[q].sent = job[q].sent /\ job'[q].write = job[q].write
                         /\ job'[q].seen = job[q].seen
                         /\ \/ job'[q].at = job[q].at
                            \/ job[q].at = "write" /\ job'[q].at = "fill"
    BY DEF Moves
  <1>3. \A q \in Procs : /\ Answered(q)' <=> Answered(q)
                         /\ Sent(q)' <=> Sent(q)
                         /\ Stores(q)' <=> Stores(q)
    BY <1>2 DEF Answered, Stores, Sent
  <1>4. \A v : Unstored(v)' => Unstored(v)
    BY <1>1, <1>2, <1>3 DEF Unstored, FirstToken
  <1>5. KnownInv'
    BY <1>1, <1>2, <1>3 DEF StoredInv, KnownInv
  <1>6. UnstoredInv'
    BY <1>1, <1>2, <1>3, <1>4 DEF StoredInv, UnstoredInv, FirstToken
  <1>7. RefusedInv'
    BY <1>2 DEF StoredInv, RefusedInv, SignIns!MarkedWasRefused
  <1> QED
    BY <1>5, <1>6, <1>7 DEF StoredInv

LEMMA StoredFill ==
  ASSUME SignInType, StoredInv, NEW p \in Procs, job[p].at = "fill", store' = job[p].write,
         Moves(p, "idle", SignIns!NoToken, SignIns!None, SignIns!NoToken),
         UNCHANGED <<signIn, live, refusals>>
  PROVE  StoredInv'
  <1>1. SignIns!Login' = SignIns!Login /\ \A v : Issued(v)' <=> Issued(v)
    BY DEF Issued, SignIns!Login
  <1>2. \A q \in Procs : /\ Sent(q)' => q # p /\ Sent(q)
                         /\ Stores(q)' => q # p /\ Stores(q)
                         /\ Answered(q)' => q # p /\ Answered(q)
                         /\ job'[q].at # "idle" => q # p
                         /\ q # p => job'[q] = job[q]
    BY DEF Moves, Answered, Stores, Sent
  <1>3. \A v : Unstored(v)' => Unstored(v)
    BY <1>1, <1>2 DEF Unstored, FirstToken
  <1>4. Stores(p) /\ Sent(p) /\ Issued(job[p].write.token)
    BY DEF StoredInv, KnownInv, Stores, Sent
  <1>5. KnownInv'
    BY <1>1, <1>2, <1>4 DEF StoredInv, KnownInv
  <1>w. PICK w : w = job[p].write.token
    OBVIOUS
  <1>6. ~Unstored(w)'
    <2>1. CASE job[p].write.refused
      BY <1>w, <1>3, <1>4, <2>1 DEF StoredInv, UnstoredInv, RefusedInv
    <2>2. CASE ~job[p].write.refused
      <3>1. Answered(p) /\ w.use > 0 /\ w \in Tokens
        BY <1>w, <1>4, <2>2 DEF Answered, StoredInv, UnstoredInv, Issued
      <3>2. FirstToken.use = 0
        BY DEF FirstToken
      <3>3. w # FirstToken'
        BY <1>1, <3>1, <3>2 DEF FirstToken
      <3> QED
        BY <1>w, <1>2, <3>1, <3>3 DEF Unstored, StoredInv, UnstoredInv
    <2> QED
      BY <2>1, <2>2
  <1>7. UnstoredInv'
    BY <1>w, <1>1, <1>2, <1>3, <1>6 DEF StoredInv, UnstoredInv, FirstToken
  <1>8. RefusedInv'
    BY <1>2 DEF StoredInv, RefusedInv, SignIns!MarkedWasRefused
  <1> QED
    BY <1>5, <1>7, <1>8 DEF StoredInv

LEMMA StoredSignIn ==
  ASSUME SignInType, SignInType', StoredInv, SignIns!SignIn
  PROVE  StoredInv'
  <1> DEFINE n == SignIns!Login + 1
  <1>1. n \in 1..MaxLogins /\ [login |-> n, use |-> 0] \in Tokens /\ Len(live) \in Nat
    BY LoginFacts, TokenFacts DEF SignIns!SignIn, SignIns!Login
  <1>2. /\ SignIns!Login' = n /\ live'[n] = [login |-> n, use |-> 0]
        /\ \A k \in 1..SignIns!Login : live'[k] = live[k]
    BY <1>1 DEF SignIns!SignIn, SignIns!Login, SignInType
  <1>3. FirstToken' = [login |-> n, use |-> 0]
    BY <1>2 DEF FirstToken
  <1>4. \A v \in Tokens : /\ Issued(v) => Issued(v)' /\ v.login # n
                          /\ Issued(v) => live'[v.login] = live[v.login]
    <2> SUFFICES ASSUME NEW v \in Tokens, Issued(v)
                 PROVE  Issued(v)' /\ v.login # n /\ live'[v.login] = live[v.login]
      OBVIOUS
    <2>1. v.login \in 1..SignIns!Login /\ v.use <= live[v.login].use
      BY DEF Issued
    <2>2. SignIns!Login \in Nat
      BY LoginFacts
    <2>3. v.login # n /\ v.login \in 1..SignIns!Login' /\ live'[v.login] = live[v.login]
      BY <1>2, <2>1, <2>2
    <2> QED
      BY <2>1, <2>3 DEF Issued
  <1>5. \A v : Issued(v) => v \in Tokens /\ v # FirstToken'
    BY <1>3, <1>4 DEF Issued
  <1>6. UNCHANGED <<job, refusals>> /\ signIn = "idle" /\ ~SignIns!Loads'
    BY DEF SignIns!SignIn, SignIns!Loads
  <1>7. \A q \in Procs : (Answered(q)' <=> Answered(q)) /\ (Sent(q)' <=> Sent(q))
                         /\ (Stores(q)' <=> Stores(q))
    BY <1>6 DEF Answered, Sent, Stores
  <1>8. \A v : Unstored(v)' => Unstored(v) \/ v = FirstToken'
    BY <1>6, <1>7 DEF Unstored
  <1>9. KnownInv'
    BY <1>4, <1>5, <1>6, <1>7 DEF StoredInv, KnownInv
  <1>10. UnstoredInv'
    <2>1. \A q \in Procs : Answered(q) => Issued(job[q].write.token)
      BY DEF StoredInv, KnownInv, Answered
    <2>2. \A q \in Procs : \A t \in Tokens : Unstored(t)' => refusals'[q][t] = 0
      BY <1>5, <1>6, <1>8 DEF StoredInv, UnstoredInv, KnownInv, SignInType
    <2>3. \A q \in Procs : Sent(q)' => ~Unstored(job[q].sent)'
      BY <1>5, <1>6, <1>7, <1>8 DEF StoredInv, UnstoredInv, KnownInv
    <2>4. \A q \in Procs : Answered(q)' => live'[job'[q].write.token.login] = job'[q].write.token
      BY <1>4, <1>5, <1>6, <1>7, <2>1 DEF StoredInv, UnstoredInv
    <2> QED
      BY <1>2, <1>3, <1>6, <1>7, <2>2, <2>3, <2>4 DEF StoredInv, UnstoredInv
  <1>11. RefusedInv'
    BY <1>4, <1>5, <1>6 DEF StoredInv, RefusedInv, SignIns!MarkedWasRefused, KnownInv, Sent
  <1> QED
    BY <1>9, <1>10, <1>11 DEF StoredInv

LEMMA StoredSignInFill ==
  ASSUME SignInType, SignInType', StoredInv, SignIns!SignInFill
  PROVE  StoredInv'
  <1>1. /\ UNCHANGED <<job, refusals, live>> /\ signIn = "filling" /\ signIn' = "idle"
        /\ store' = SignIns!Creds(FirstToken, TRUE, FALSE)
    BY DEF SignIns!SignInFill, FirstToken
  <1>2. SignIns!Login' = SignIns!Login /\ \A v : Issued(v)' <=> Issued(v)
    BY <1>1 DEF Issued, SignIns!Login
  <1>3. FirstToken \in Tokens /\ Issued(FirstToken) /\ FirstToken.use = 0
    BY <1>1, TokenFacts, LoginFacts
       DEF FirstToken, Issued, StoredInv, UnstoredInv, SignInType, SignIns!Login
  <1>4. store'.token = FirstToken /\ store'.fresh = TRUE /\ store'.refused = FALSE
    BY <1>1, <1>3, CredsFacts
  <1>5. \A q \in Procs : (Answered(q)' <=> Answered(q)) /\ (Sent(q)' <=> Sent(q))
                         /\ (Stores(q)' <=> Stores(q))
    BY <1>1 DEF Answered, Sent, Stores
  <1>6. \A v : Unstored(v)' => Unstored(v)
    BY <1>1, <1>5 DEF Unstored
  <1>f. PICK f : f = FirstToken
    OBVIOUS
  <1>7. ~Unstored(f)'
    BY <1>f, <1>1, <1>3, <1>5 DEF Unstored, StoredInv, UnstoredInv
  <1>8. KnownInv'
    BY <1>1, <1>2, <1>3, <1>4, <1>5 DEF StoredInv, KnownInv
  <1>9. UnstoredInv'
    BY <1>f, <1>1, <1>2, <1>4, <1>5, <1>6, <1>7 DEF StoredInv, UnstoredInv
  <1>10. RefusedInv'
    BY <1>1, <1>4 DEF StoredInv, RefusedInv, SignIns!MarkedWasRefused
  <1> QED
    BY <1>8, <1>9, <1>10 DEF StoredInv

LEMMA StoredInit == SignIns!Init => StoredInv
  <1> SUFFICES ASSUME SignIns!Init PROVE StoredInv
    OBVIOUS
  <1>1. ~SignIns!Loads /\ signIn = "idle" /\ \A p \in Procs : job[p].at = "idle"
    BY DEF SignIns!Init, SignIns!Loads, SignIns!Idle
  <1>2. \A p \in Procs : \A t \in Tokens : refusals[p][t] = 0
    BY DEF SignIns!Init, Tokens
  <1> QED
    BY <1>1, <1>2
       DEF StoredInv, KnownInv, UnstoredInv, RefusedInv, SignIns!MarkedWasRefused, Sent, Stores,
           Answered, Unstored

\* What is sent is a token.
LEMMA SentToken ==
  ASSUME StoredInv, NEW p \in Procs, Sent(p)
  PROVE  job[p].sent \in Tokens
  BY DEF StoredInv, KnownInv, Issued

LEMMA StoredNext ==
  ASSUME SignInType, SignInType', StoredInv, [SignIns!Next]_(SignIns!vars)
  PROVE  StoredInv'
  <1> USE DEF SignIns!history, SignIns!At
  <1>1. ASSUME NEW p \in Procs, SignIns!Call(p) PROVE StoredInv'
    BY <1>1, GoToStep, Withdraws DEF SignIns!Call, Moves, Steps, Sent, Stores
  <1>2. ASSUME NEW p \in Procs, SignIns!GetLock(p) PROVE StoredInv'
    BY <1>2, GoToStep, Withdraws DEF SignIns!GetLock, Moves, Steps, Sent, Stores
  <1>3. ASSUME NEW p \in Procs, SignIns!Recheck(p) PROVE StoredInv'
    <2>1. CASE /\ SignIns!Loads /\ ~store.fresh
               /\ job' = [job EXCEPT ![p].at = "send", ![p].sent = store.token]
      BY <1>3, <2>1, LoadsFact, SendStep, Sends DEF SignIns!Recheck
    <2>2. CASE SignIns!Return(p)
      BY <1>3, <2>2, ReturnStep, Withdraws DEF SignIns!Recheck, Moves, Sent, Stores
    <2> QED
      BY <1>3, <2>1, <2>2 DEF SignIns!Recheck, SignIns!Refreshable
  <1>4. ASSUME NEW p \in Procs, SignIns!Refresh(p) PROVE StoredInv'
    <2>1. PICK t \in Tokens : t = job[p].sent
      BY <1>4, SentToken DEF SignIns!Refresh, Sent
    <2>2. PICK u : u = SignIns!Successor(t)
      OBVIOUS
    <2>3. job[p].at = "send" /\ u \in Tokens /\ UNCHANGED <<store, signIn>>
      BY <1>4, <2>1, <2>2, TokenFacts DEF SignIns!Refresh, StoredInv, KnownInv, Sent
    <2>4. PICK c : c = SignIns!Creds(u, TRUE, FALSE)
      OBVIOUS
    <2>5. c \in Creds /\ c.token = u /\ c.fresh = TRUE /\ c.refused = FALSE
      BY <2>3, <2>4, CredsFacts
    <2>6. CASE /\ live[t.login] = t /\ live' = [live EXCEPT ![t.login] = u]
               /\ job' = [job EXCEPT ![p].at = "compare", ![p].write = c]
               /\ UNCHANGED refusals
      <3>1. Moves(p, "compare", t, c, job[p].seen)
        BY <2>1, <2>5, <2>6, AnswerStep
      <3> QED
        BY <2>1, <2>2, <2>3, <2>5, <2>6, <3>1, Answers
    <2>7. CASE /\ live[t.login] # t /\ job' = [job EXCEPT ![p].at = "refused"]
               /\ refusals' = [refusals EXCEPT ![p][t] = @ + 1]
               /\ UNCHANGED live
      <3>1. Moves(p, "refused", t, job[p].write, job[p].seen)
        BY <2>1, <2>7, GoToStep DEF SignIns!GoTo, Steps
      <3> QED
        BY <2>1, <2>3, <2>7, <3>1, IsRefused
    <2> QED
      BY <1>4, <2>1, <2>2, <2>4, <2>6, <2>7 DEF SignIns!Refresh
  <1>5. ASSUME NEW p \in Procs, SignIns!LoseAnswer(p) PROVE StoredInv'
    <2>1. PICK t \in Tokens : t = job[p].sent
      BY <1>5, SentToken DEF SignIns!LoseAnswer, Sent
    <2>2. Moves(p, "failed", t, job[p].write, job[p].seen) /\ job[p].at = "send"
          /\ UNCHANGED <<store, signIn, refusals>>
      BY <1>5, <2>1, GoToStep DEF SignIns!LoseAnswer, Steps
    <2>3. CASE live' = live
      BY <2>1, <2>2, <2>3, Withdraws DEF Moves, Sent, Stores
    <2>4. CASE live[t.login] = t /\ live' = [live EXCEPT ![t.login] = SignIns!Successor(t)]
      BY <2>1, <2>2, <2>4, LosesAnswer
    <2> QED
      BY <1>5, <2>1, <2>3, <2>4 DEF SignIns!LoseAnswer
  <1>6. ASSUME NEW p \in Procs, SignIns!Compare(p) PROVE StoredInv'
    <2>1. CASE SignIns!Loads /\ store.token = job[p].sent /\ SignIns!ToWrite(p, job[p].write)
      <3>1. PICK c \in Creds : c = job[p].write
        BY JobFacts
      <3>2. Moves(p, "write", job[p].sent, c, store.token)
        BY <2>1, <3>1, ToWriteStep
      <3> QED
        BY <1>6, <2>1, <3>1, <3>2, Decides DEF SignIns!Compare
    <2>2. CASE SignIns!Return(p)
      BY <1>6, <2>2, ReturnStep, Withdraws DEF SignIns!Compare, Moves, Sent, Stores
    <2> QED
      BY <1>6, <2>1, <2>2 DEF SignIns!Compare
  <1>7. ASSUME NEW p \in Procs, SignIns!Reload(p) PROVE StoredInv'
    <2>1. CASE /\ SignIns!Loads /\ ~store.fresh
               /\ job' = [job EXCEPT ![p].at = "send", ![p].sent = store.token, ![p].retried = TRUE]
      BY <1>7, <2>1, LoadsFact, SendStep, Sends DEF SignIns!Reload
    <2>2. CASE SignIns!Return(p)
      BY <1>7, <2>2, ReturnStep, Withdraws DEF SignIns!Reload, Moves, Sent, Stores
    <2>3. CASE job[p].at = "refused" /\ SignIns!GoTo(p, "mark")
      BY <1>7, <2>3, GoToStep, Withdraws DEF SignIns!Reload, Moves, Steps, Sent, Stores
    <2> QED
      BY <1>7, <2>1, <2>2, <2>3 DEF SignIns!Reload
  <1>8. ASSUME NEW p \in Procs, SignIns!Mark(p) PROVE StoredInv'
    <2>1. CASE /\ SignIns!Loads /\ store.token = job[p].sent
               /\ SignIns!ToWrite(p, [store EXCEPT !.refused = TRUE])
      <3>1. [store EXCEPT !.refused = TRUE] \in Creds
        BY <2>1, CredsFacts, LoadsFact DEF SignInType, Creds
      <3>2. Moves(p, "write", job[p].sent, [store EXCEPT !.refused = TRUE], store.token)
        BY <2>1, <3>1, ToWriteStep
      <3> QED
        BY <1>8, <2>1, <3>1, <3>2, Decides DEF SignIns!Mark
    <2>2. CASE SignIns!Return(p)
      BY <1>8, <2>2, ReturnStep, Withdraws DEF SignIns!Mark, Moves, Sent, Stores
    <2> QED
      BY <1>8, <2>1, <2>2 DEF SignIns!Mark
  <1>9. ASSUME NEW p \in Procs, SignIns!Truncate(p) PROVE StoredInv'
    BY <1>9, GoToStep, StoreShrinks DEF SignIns!Truncate, SignIns!Loads, Steps
  <1>10. ASSUME NEW p \in Procs, SignIns!Fill(p) PROVE StoredInv'
    BY <1>10, ReturnStep, StoredFill DEF SignIns!Fill
  <1>11. ASSUME NEW p \in Procs, SignIns!CannotWrite(p) PROVE StoredInv'
    BY <1>11, ReturnStep, Withdraws DEF SignIns!CannotWrite, Moves, Sent, Stores
  <1>12. ASSUME NEW p \in Procs, SignIns!Crash(p) PROVE StoredInv'
    <2>1. \A q \in Procs : \A t \in Tokens : refusals'[q][t] \in {refusals[q][t], 0}
      BY <1>12 DEF SignIns!Crash, SignInType, Tokens
    <2> QED
      BY <1>12, <2>1, ReturnStep, Withdraws DEF SignIns!Crash, Moves, Sent, Stores
  <1>13. CASE SignIns!SignIn
    BY <1>13, StoredSignIn
  <1>14. CASE SignIns!SignInFill
    BY <1>14, StoredSignInFill
  <1>15. CASE SignIns!SignOut
    BY <1>15, StoreShrinks DEF SignIns!SignOut, SignIns!Loads
  <1>16. CASE SignIns!Expire
    <2>1. store \in Creds /\ store.token \in Tokens
      BY <1>16, LoadsFact DEF SignIns!Expire, SignInType, Creds
    <2>2. store'.token = store.token /\ store'.refused = store.refused
      BY <1>16, <2>1, CredsFacts DEF SignIns!Expire
    <2> QED
      BY <1>16, <2>2, StoreShrinks DEF SignIns!Expire
  <1>17. CASE UNCHANGED SignIns!vars
    BY <1>17, Withdraws DEF SignIns!vars
  <1> QED
    BY <1>1, <1>2, <1>3, <1>4, <1>5, <1>6, <1>7, <1>8, <1>9, <1>10, <1>11, <1>12, <1>13,
       <1>14, <1>15, <1>16, <1>17 DEF SignIns!Next, SignIns!Run

----------------------------------------------------------------------------
(* Refusals *)

LEMMA OnceInit == SignIns!Init => OnceInv
  <1> SUFFICES ASSUME SignIns!Init, NEW p \in Procs PROVE Once(p)
    BY DEF OnceInv
  <1>1. job[p].at = "idle" /\ ~SignIns!Loads
    BY DEF SignIns!Init, SignIns!Loads, SignIns!Idle
  <1>2. \A t \in Tokens : refusals[p][t] = 0
    BY DEF SignIns!Init, Tokens
  <1> QED
    BY <1>1, <1>2 DEF Once, Sent

\* What is stored stays, or becomes a token no process has used.
NewStore(q) ==
  \/ ~SignIns!Loads'
  \/ store'.refused
  \/ /\ SignIns!Loads /\ store'.token = store.token /\ ~store.refused
     /\ store'.fresh => store.fresh
  \/ refusals[q][store'.token] = 0 /\ (Sent(q) => store'.token # job[q].sent)

LEMMA OnceOther ==
  ASSUME SignInType, SignInType', NEW q \in Procs, Once(q), NewStore(q), job'[q] = job[q],
         memory'[q] = memory[q], refusals'[q] = refusals[q]
  PROVE  Once(q)'
  BY DEF Once, NewStore, Sent

LEMMA OnceNext ==
  ASSUME SignInType, SignInType', StoredInv, OnceInv, [SignIns!Next]_(SignIns!vars)
  PROVE  OnceInv'
  <1> USE DEF SignIns!history, SignIns!At
  <1>0. /\ SignIns!Loads => store.token \in Tokens
        /\ SignIns!Loads' => store'.token \in Tokens
        /\ \A p \in Procs : \A t \in Tokens : refusals[p][t] \in Nat
    BY CredsFacts DEF SignInType, SignIns!Loads, Creds
  <1>s. store' = store => \A q \in Procs : NewStore(q)
    BY DEF NewStore, SignIns!Loads
  \* The other processes.
  <1>o. ASSUME NEW p \in Procs, OnceInv, \A q \in Procs : NewStore(q),
               \A q \in Procs : q # p => job'[q] = job[q],
               \A q \in Procs : q # p => memory'[q] = memory[q],
               \A q \in Procs : q # p => refusals'[q] = refusals[q], Once(p)'
        PROVE  OnceInv'
    BY <1>o, OnceOther DEF OnceInv
  <1>1. ASSUME NEW p \in Procs, SignIns!Call(p) PROVE OnceInv'
    <2>1. Moves(p, "locking", job[p].sent, job[p].write, job[p].seen) /\ job[p].at = "idle"
          /\ UNCHANGED <<store, memory, refusals>>
      BY <1>1, GoToStep DEF SignIns!Call, Steps
    <2>2. Once(p)'
      BY <2>1 DEF OnceInv, Once, Moves, Sent, SignIns!Loads
    <2> QED
      BY <1>o, <1>s, <2>1, <2>2 DEF Moves
  <1>2. ASSUME NEW p \in Procs, SignIns!GetLock(p) PROVE OnceInv'
    <2>1. Moves(p, "recheck", job[p].sent, job[p].write, job[p].seen) /\ job[p].at = "locking"
          /\ UNCHANGED <<store, memory, refusals>>
      BY <1>2, GoToStep DEF SignIns!GetLock, Steps
    <2>2. Once(p)'
      BY <2>1 DEF OnceInv, Once, Moves, Sent, SignIns!Loads
    <2> QED
      BY <1>o, <1>s, <2>1, <2>2 DEF Moves
  <1>3. ASSUME NEW p \in Procs, SignIns!Recheck(p) PROVE OnceInv'
    <2>0. job[p].at = "recheck" /\ UNCHANGED <<store, memory, refusals>>
      BY <1>3 DEF SignIns!Recheck
    <2>1. CASE /\ SignIns!Refreshable(p) /\ ~store.fresh
               /\ job' = [job EXCEPT ![p].at = "send", ![p].sent = store.token]
      <3>1. Moves(p, "send", store.token, job[p].write, job[p].seen)
        BY <2>1, <1>0, SendStep DEF SignIns!Refreshable
      <3>2. refusals[p][store.token] = 0
        BY <2>0, <2>1, <1>0 DEF OnceInv, Once, SignIns!Refreshable
      <3>3. Once(p)'
        BY <2>0, <2>1, <3>1, <3>2 DEF OnceInv, Once, Moves, Sent, SignIns!Loads
      <3> QED
        BY <1>o, <1>s, <2>0, <3>1, <3>3 DEF Moves
    <2>2. CASE SignIns!Return(p)
      <3>1. Moves(p, "idle", SignIns!NoToken, SignIns!None, SignIns!NoToken)
        BY <2>2, ReturnStep
      <3>2. Once(p)'
        BY <2>0, <3>1 DEF OnceInv, Once, Moves, Sent, SignIns!Loads
      <3> QED
        BY <1>o, <1>s, <2>0, <3>1, <3>2 DEF Moves
    <2> QED
      BY <1>3, <2>1, <2>2 DEF SignIns!Recheck
  <1>4. ASSUME NEW p \in Procs, SignIns!Refresh(p) PROVE OnceInv'
    <2>0. job[p].at = "send" /\ UNCHANGED <<store, memory>> /\ job[p].sent \in Tokens
      BY <1>4, SentToken DEF SignIns!Refresh, Sent
    <2>1. PICK t \in Tokens : t = job[p].sent
      BY <2>0
    <2>2. refusals[p][t] = 0
          /\ (SignIns!Loads /\ ~store.refused => refusals[p][store.token] = 0)
      BY <1>0, <2>0, <2>1 DEF OnceInv, Once
    <2>3. PICK c : c = SignIns!Creds(SignIns!Successor(t), TRUE, FALSE)
      OBVIOUS
    <2>4. CASE job' = [job EXCEPT ![p].at = "compare", ![p].write = c] /\ UNCHANGED refusals
      <3>1. c \in Creds
        BY <1>4, <2>1, <2>3, CredsFacts, TokenFacts
           DEF SignIns!Refresh, StoredInv, KnownInv, Sent
      <3>2. Moves(p, "compare", t, c, job[p].seen)
        BY <2>1, <2>4, <3>1, AnswerStep
      <3>3. Once(p)'
        BY <2>0, <2>1, <2>2, <2>4, <3>2 DEF OnceInv, Once, Moves, Sent, SignIns!Loads
      <3> QED
        BY <1>o, <1>s, <2>0, <2>4, <3>2, <3>3 DEF Moves
    <2>5. CASE /\ job' = [job EXCEPT ![p].at = "refused"]
               /\ refusals' = [refusals EXCEPT ![p][t] = @ + 1]
      <3>1. Moves(p, "refused", t, job[p].write, job[p].seen)
        BY <2>1, <2>5, GoToStep DEF SignIns!GoTo, Steps
      <3>2. \A q \in Procs : \A v \in Tokens :
              refusals'[q][v] = IF q = p /\ v = t THEN refusals[p][t] + 1 ELSE refusals[q][v]
        BY <2>5, Counts
      <3>3. Once(p)'
        BY <1>0, <2>0, <2>1, <2>2, <3>1, <3>2 DEF OnceInv, Once, Moves, Sent, SignIns!Loads
      <3>4. \A q \in Procs : q # p => refusals'[q] = refusals[q]
        BY <2>5 DEF SignInType
      <3> QED
        BY <1>o, <1>s, <2>0, <3>1, <3>3, <3>4 DEF Moves
    <2> QED
      BY <1>4, <2>1, <2>3, <2>4, <2>5 DEF SignIns!Refresh
  <1>5. ASSUME NEW p \in Procs, SignIns!LoseAnswer(p) PROVE OnceInv'
    <2>1. Moves(p, "failed", job[p].sent, job[p].write, job[p].seen) /\ job[p].at = "send"
          /\ UNCHANGED <<store, memory, refusals>>
      BY <1>5, GoToStep DEF SignIns!LoseAnswer, Steps
    <2>2. Once(p)'
      BY <2>1 DEF OnceInv, Once, Moves, Sent, SignIns!Loads
    <2> QED
      BY <1>o, <1>s, <2>1, <2>2 DEF Moves
  <1>6. ASSUME NEW p \in Procs, SignIns!Compare(p) PROVE OnceInv'
    <2>0. job[p].at = "compare" /\ UNCHANGED <<store, memory, refusals>>
          /\ job[p].write \in Creds
      BY <1>6, JobFacts DEF SignIns!Compare
    <2>1. CASE SignIns!ToWrite(p, job[p].write)
      <3>1. Moves(p, "write", job[p].sent, job[p].write, store.token)
        BY <2>0, <2>1, ToWriteStep
      <3>2. Once(p)'
        BY <2>0, <3>1 DEF OnceInv, Once, Moves, Sent, SignIns!Loads
      <3> QED
        BY <1>o, <1>s, <2>0, <3>1, <3>2 DEF Moves
    <2>2. CASE SignIns!Return(p)
      <3>1. Moves(p, "idle", SignIns!NoToken, SignIns!None, SignIns!NoToken)
        BY <2>2, ReturnStep
      <3>2. Once(p)'
        BY <2>0, <3>1 DEF OnceInv, Once, Moves, Sent, SignIns!Loads
      <3> QED
        BY <1>o, <1>s, <2>0, <3>1, <3>2 DEF Moves
    <2> QED
      BY <1>6, <2>1, <2>2 DEF SignIns!Compare
  <1>7. ASSUME NEW p \in Procs, SignIns!Reload(p) PROVE OnceInv'
    <2>0. job[p].at \in {"refused", "failed"} /\ UNCHANGED <<store, memory, refusals>>
      BY <1>7 DEF SignIns!Reload
    <2>1. CASE /\ SignIns!Loads /\ ~store.refused /\ ~store.fresh /\ store.token # job[p].sent
               /\ job' = [job EXCEPT ![p].at = "send", ![p].sent = store.token, ![p].retried = TRUE]
      <3>1. Moves(p, "send", store.token, job[p].write, job[p].seen)
        BY <2>1, <1>0, SendStep
      <3>2. refusals[p][store.token] = 0
        BY <2>0, <2>1, <1>0 DEF OnceInv, Once
      <3>3. Once(p)'
        BY <2>0, <2>1, <3>1, <3>2 DEF OnceInv, Once, Moves, Sent, SignIns!Loads
      <3> QED
        BY <1>o, <1>s, <2>0, <3>1, <3>3 DEF Moves
    <2>2. CASE SignIns!Return(p) /\ (SignIns!Loads /\ ~store.refused /\ job[p].at = "refused"
                                       => store.fresh)
      <3>1. Moves(p, "idle", SignIns!NoToken, SignIns!None, SignIns!NoToken)
        BY <2>2, ReturnStep
      <3>2. Once(p)'
        BY <2>0, <2>2, <3>1 DEF OnceInv, Once, Moves, Sent, SignIns!Loads
      <3> QED
        BY <1>o, <1>s, <2>0, <3>1, <3>2 DEF Moves
    <2>3. CASE job[p].at = "refused" /\ SignIns!GoTo(p, "mark")
      <3>1. Moves(p, "mark", job[p].sent, job[p].write, job[p].seen)
        BY <2>3, GoToStep DEF Steps
      <3>2. Once(p)'
        BY <2>0, <2>3, <3>1 DEF OnceInv, Once, Moves, Sent, SignIns!Loads
      <3> QED
        BY <1>o, <1>s, <2>0, <3>1, <3>2 DEF Moves
    <2> QED
      BY <1>7, <2>1, <2>2, <2>3 DEF SignIns!Reload
  <1>8. ASSUME NEW p \in Procs, SignIns!Mark(p) PROVE OnceInv'
    <2>0. job[p].at = "mark" /\ UNCHANGED <<store, refusals>>
          /\ \A q \in Procs : q # p => memory'[q] = memory[q]
      BY <1>8 DEF SignIns!Mark, SignInType
    <2>1. CASE SignIns!Loads /\ SignIns!ToWrite(p, [store EXCEPT !.refused = TRUE])
               /\ UNCHANGED memory
      <3>1. [store EXCEPT !.refused = TRUE] \in Creds /\ [store EXCEPT !.refused = TRUE].refused
        BY <2>1, CredsFacts, LoadsFact DEF SignInType, Creds
      <3>2. Moves(p, "write", job[p].sent, [store EXCEPT !.refused = TRUE], store.token)
        BY <2>1, <3>1, ToWriteStep
      <3>3. Once(p)'
        BY <2>0, <2>1, <3>1, <3>2 DEF OnceInv, Once, Moves, Sent, SignIns!Loads
      <3> QED
        BY <1>o, <1>s, <2>0, <3>2, <3>3 DEF Moves
    <2>2. CASE /\ store = SignIns!None \/ store.refused \/ store.token # job[p].sent
               /\ SignIns!Return(p)
      <3>1. Moves(p, "idle", SignIns!NoToken, SignIns!None, SignIns!NoToken)
        BY <2>2, ReturnStep
      <3>2. Once(p)'
        BY <2>0, <2>2, <3>1 DEF OnceInv, Once, Moves, Sent, SignIns!Loads
      <3> QED
        BY <1>o, <1>s, <2>0, <3>1, <3>2 DEF Moves
    <2> QED
      BY <1>8, <2>1, <2>2 DEF SignIns!Mark
  <1>9. ASSUME NEW p \in Procs, SignIns!Truncate(p) PROVE OnceInv'
    <2>1. Moves(p, "fill", job[p].sent, job[p].write, job[p].seen) /\ job[p].at = "write"
          /\ UNCHANGED <<memory, refusals>> /\ ~SignIns!Loads'
      BY <1>9, GoToStep DEF SignIns!Truncate, SignIns!Loads, Steps
    <2>2. Once(p)'
      BY <2>1 DEF OnceInv, Once, Moves
    <2> QED
      BY <1>o, <2>1, <2>2 DEF Moves, NewStore
  <1>10. ASSUME NEW p \in Procs, SignIns!Fill(p) PROVE OnceInv'
    <2>1. Moves(p, "idle", SignIns!NoToken, SignIns!None, SignIns!NoToken) /\ job[p].at = "fill"
          /\ UNCHANGED <<memory, refusals>> /\ store' = job[p].write
      BY <1>10, ReturnStep DEF SignIns!Fill
    <2>2. PICK w : w = job[p].write.token
      OBVIOUS
    <2>3. ~job[p].write.refused =>
            /\ w \in Tokens
            /\ \A q \in Procs : refusals[q][w] = 0 /\ (Sent(q) => job[q].sent # w)
      <3>1. SUFFICES ASSUME ~job[p].write.refused
                     PROVE  /\ w \in Tokens
                            /\ \A q \in Procs : refusals[q][w] = 0 /\ (Sent(q) => job[q].sent # w)
        OBVIOUS
      <3>2. w \in Tokens /\ Unstored(w)
        BY <2>1, <2>2, <3>1 DEF StoredInv, KnownInv, Stores, Issued, Unstored, Answered
      <3> QED
        BY <3>2 DEF StoredInv, UnstoredInv
    <2>4. \A q \in Procs : NewStore(q)
      BY <2>1, <2>2, <2>3 DEF NewStore
    <2>5. Once(p)'
      BY <2>1, <2>2, <2>3 DEF OnceInv, Once, Moves, Sent
    <2> QED
      BY <1>o, <2>1, <2>4, <2>5 DEF Moves
  <1>11. ASSUME NEW p \in Procs, SignIns!CannotWrite(p) PROVE OnceInv'
    <2>1. Moves(p, "idle", SignIns!NoToken, SignIns!None, SignIns!NoToken) /\ job[p].at = "write"
          /\ UNCHANGED <<store, refusals>>
          /\ \A q \in Procs : q # p => memory'[q] = memory[q]
      BY <1>11, ReturnStep DEF SignIns!CannotWrite, SignInType
    <2>2. job[p].write.refused => memory'[p] = job[p].sent
      BY <1>11 DEF SignIns!CannotWrite, SignInType
    <2>3. Once(p)'
      BY <2>1, <2>2 DEF OnceInv, Once, Moves, Sent, SignIns!Loads
    <2> QED
      BY <1>o, <1>s, <2>1, <2>3 DEF Moves
  <1>12. ASSUME NEW p \in Procs, SignIns!Crash(p) PROVE OnceInv'
    <2>1. Moves(p, "idle", SignIns!NoToken, SignIns!None, SignIns!NoToken)
          /\ UNCHANGED store
          /\ \A q \in Procs : q # p => memory'[q] = memory[q] /\ refusals'[q] = refusals[q]
      BY <1>12, ReturnStep DEF SignIns!Crash, SignInType
    <2>2. \A t \in Tokens : refusals'[p][t] = 0
      BY <1>12 DEF SignIns!Crash, SignInType, Tokens
    <2>3. Once(p)'
      BY <1>0, <2>1, <2>2 DEF OnceInv, Once, Moves, Sent, SignIns!Loads
    <2> QED
      BY <1>o, <1>s, <2>1, <2>3 DEF Moves
  \* No process moves.
  <1>n. ASSUME UNCHANGED <<job, memory, refusals>>, \A q \in Procs : NewStore(q) PROVE OnceInv'
    BY <1>n, OnceOther DEF OnceInv
  <1>13. CASE SignIns!SignIn
    <2>1. UNCHANGED <<job, memory, refusals>> /\ ~SignIns!Loads'
      BY <1>13 DEF SignIns!SignIn, SignIns!Loads
    <2> QED
      BY <1>n, <2>1 DEF NewStore
  <1>14. CASE SignIns!SignInFill
    <2>1. UNCHANGED <<job, memory, refusals>> /\ signIn = "filling"
          /\ store' = SignIns!Creds(FirstToken, TRUE, FALSE)
      BY <1>14 DEF SignIns!SignInFill, FirstToken
    <2>2. FirstToken \in Tokens
      BY <2>1, TokenFacts, LoginFacts DEF SignInType, FirstToken
    <2>3. store'.token = FirstToken
      BY <2>1, <2>2, CredsFacts
    <2>4. \A q \in Procs : refusals[q][FirstToken] = 0 /\ (Sent(q) => job[q].sent # FirstToken)
      BY <2>1, <2>2 DEF StoredInv, UnstoredInv, Unstored
    <2> QED
      BY <1>n, <2>1, <2>3, <2>4 DEF NewStore
  <1>15. CASE SignIns!SignOut
    <2>1. UNCHANGED <<job, memory, refusals>> /\ ~SignIns!Loads'
      BY <1>15 DEF SignIns!SignOut, SignIns!Loads
    <2> QED
      BY <1>n, <2>1 DEF NewStore
  <1>16. CASE SignIns!Expire
    <2>1. store \in Creds /\ store.token \in Tokens /\ UNCHANGED <<job, memory, refusals>>
          /\ SignIns!Loads
      BY <1>16, LoadsFact DEF SignIns!Expire, SignInType, Creds
    <2>2. store'.token = store.token /\ store'.refused = store.refused /\ store'.fresh = FALSE
      BY <1>16, <2>1, CredsFacts DEF SignIns!Expire
    <2> QED
      BY <1>n, <2>1, <2>2 DEF NewStore
  <1>17. CASE UNCHANGED SignIns!vars
    BY <1>17, <1>n, <1>s DEF SignIns!vars
  <1> QED
    BY <1>1, <1>2, <1>3, <1>4, <1>5, <1>6, <1>7, <1>8, <1>9, <1>10, <1>11, <1>12, <1>13,
       <1>14, <1>15, <1>16, <1>17 DEF SignIns!Next, SignIns!Run

----------------------------------------------------------------------------
(* Comparisons and writes *)

LEMMA FlagsInit == SignIns!Init => FlagType
  BY DEF SignIns!Init, FlagType

\* A flag that is set stays set.
LEMMA FlagsNext ==
  ASSUME FlagType, [SignIns!Next]_(SignIns!vars)
  PROVE  FlagType' /\ (raced => raced') /\ (spilt => spilt')
  BY ZenonT(40)
     DEF FlagType, SignIns!Next, SignIns!Run, SignIns!Call, SignIns!GetLock, SignIns!Recheck,
         SignIns!Refresh, SignIns!LoseAnswer, SignIns!Compare, SignIns!Reload, SignIns!Mark,
         SignIns!Truncate, SignIns!Fill, SignIns!CannotWrite, SignIns!Crash, SignIns!SignIn,
         SignIns!SignInFill, SignIns!SignOut, SignIns!Expire, SignIns!vars, SignIns!history

LEMMA RaceInit == SignIns!Init => RaceInv
  BY DEF SignIns!Init, RaceInv, SignIns!LatestLoginStays, SignIns!Loads, SignIns!Idle, Filling

\* Nothing is stored and no one begins to write.
LEMMA RaceKept ==
  ASSUME RaceInv, UNCHANGED <<store, signIn>>, SignIns!Login' = SignIns!Login,
         ~raced' => ~raced,
         \A q \in Procs : Filling(q)' => Filling(q) /\ job'[q].write = job[q].write
  PROVE  RaceInv'
  BY DEF RaceInv, SignIns!LatestLoginStays, SignIns!Loads

LEMMA RotatedLogins ==
  ASSUME SignInType, NEW p \in Procs, NEW t,
         \/ live' = live
         \/ live' = [live EXCEPT ![t] = SignIns!Successor(job[p].sent)]
  PROVE  SignIns!Login' = SignIns!Login
  BY DEF SignInType, SignIns!Login

LEMMA RaceNext ==
  ASSUME SignInType, SignInType', FlagType, StoredInv, RaceInv, [SignIns!Next]_(SignIns!vars)
  PROVE  RaceInv'
  <1> USE DEF SignIns!history, SignIns!At
  <1>0. ~raced' => ~raced
    BY FlagsNext
  <1>1. ASSUME NEW p \in Procs, SignIns!Call(p) PROVE RaceInv'
    BY <1>0, <1>1, GoToStep, RaceKept DEF SignIns!Call, Moves, Filling, Steps, SignIns!Login
  <1>2. ASSUME NEW p \in Procs, SignIns!GetLock(p) PROVE RaceInv'
    BY <1>0, <1>2, GoToStep, RaceKept DEF SignIns!GetLock, Moves, Filling, Steps, SignIns!Login
  <1>3. ASSUME NEW p \in Procs, SignIns!Recheck(p) PROVE RaceInv'
    BY <1>0, <1>3, ReturnStep, SendStep, LoadsFact, RaceKept
       DEF SignIns!Recheck, SignIns!Refreshable, Moves, Filling, SignIns!Login
  <1>4. ASSUME NEW p \in Procs, SignIns!Refresh(p) PROVE RaceInv'
    <2>1. SignIns!Login' = SignIns!Login
      BY <1>4, RotatedLogins DEF SignIns!Refresh
    <2>2. \A q \in Procs : Filling(q)' => Filling(q) /\ job'[q].write = job[q].write
      <3>1. \A q \in Procs : q # p => job'[q] = job[q]
        BY <1>4 DEF SignIns!Refresh, SignInType
      <3>2. job'[p].at \in {"compare", "refused"}
        <4>1. PICK c : \/ job' = [job EXCEPT ![p].at = "compare", ![p].write = c]
                       \/ job' = [job EXCEPT ![p].at = "refused"]
          BY <1>4 DEF SignIns!Refresh
        <4>2. /\ [job[p] EXCEPT !.at = "compare", !.write = c].at = "compare"
              /\ [job[p] EXCEPT !.at = "refused"].at = "refused"
          BY JobFacts DEF Jobs
        <4> QED
          BY <4>1, <4>2 DEF SignInType
      <3> QED
        BY <3>1, <3>2 DEF Filling
    <2> QED
      BY <1>0, <1>4, <2>1, <2>2, RaceKept DEF SignIns!Refresh
  <1>5. ASSUME NEW p \in Procs, SignIns!LoseAnswer(p) PROVE RaceInv'
    <2>1. SignIns!Login' = SignIns!Login
      BY <1>5, RotatedLogins DEF SignIns!LoseAnswer
    <2> QED
      BY <1>0, <1>5, <2>1, GoToStep, RaceKept DEF SignIns!LoseAnswer, Moves, Filling, Steps
  <1>6. ASSUME NEW p \in Procs, SignIns!Compare(p) PROVE RaceInv'
    BY <1>0, <1>6, ReturnStep, ToWriteStep, JobFacts, RaceKept
       DEF SignIns!Compare, Moves, Filling, SignIns!Login
  <1>7. ASSUME NEW p \in Procs, SignIns!Reload(p) PROVE RaceInv'
    BY ZenonT(30), <1>0, <1>7, ReturnStep, SendStep, GoToStep, LoadsFact, RaceKept
       DEF SignIns!Reload, Moves, Filling, Steps, SignIns!Login
  <1>8. ASSUME NEW p \in Procs, SignIns!Mark(p) PROVE RaceInv'
    <2>1. SignIns!Loads => [store EXCEPT !.refused = TRUE] \in Creds
      BY CredsFacts, LoadsFact DEF SignInType, Creds
    <2> QED
      BY <1>0, <1>8, <2>1, ReturnStep, ToWriteStep, RaceKept
         DEF SignIns!Mark, Moves, Filling, SignIns!Login
  <1>9. ASSUME NEW p \in Procs, SignIns!Truncate(p) PROVE RaceInv'
    <2> SUFFICES ASSUME ~raced' PROVE RaceInv'
      BY DEF RaceInv
    <2>1. ~raced /\ store.token = job[p].seen
      BY <1>9, <1>0, Zenon DEF SignIns!Truncate
    <2>2. Moves(p, "fill", job[p].sent, job[p].write, job[p].seen) /\ job[p].at = "write"
          /\ UNCHANGED <<signIn, live>> /\ store' = SignIns!Torn
      BY <1>9, GoToStep DEF SignIns!Truncate, Steps
    <2>3. store.token \in Tokens /\ job[p].write.token.login = store.token.login
      BY <2>1, <2>2 DEF StoredInv, KnownInv
    <2>4. SignIns!Loads /\ store # SignIns!Torn
      BY <2>3, LoadsFact, CredsFacts, TokenFacts
    <2> QED
      BY <2>1, <2>2, <2>3, <2>4
         DEF RaceInv, SignIns!LatestLoginStays, SignIns!Loads, Moves, Filling, SignIns!Login
  <1>10. ASSUME NEW p \in Procs, SignIns!Fill(p) PROVE RaceInv'
    <2> SUFFICES ASSUME ~raced' PROVE RaceInv'
      BY DEF RaceInv
    <2>1. ~raced /\ store = SignIns!Torn
      BY <1>10, <1>0, Zenon DEF SignIns!Fill
    <2>2. Moves(p, "idle", SignIns!NoToken, SignIns!None, SignIns!NoToken) /\ job[p].at = "fill"
          /\ UNCHANGED <<signIn, live>> /\ store' = job[p].write
      BY <1>10, ReturnStep DEF SignIns!Fill
    <2> QED
      BY <2>1, <2>2
         DEF RaceInv, SignIns!LatestLoginStays, SignIns!Loads, Moves, Filling, SignIns!Login
  <1>11. ASSUME NEW p \in Procs, SignIns!CannotWrite(p) PROVE RaceInv'
    BY <1>0, <1>11, ReturnStep, RaceKept DEF SignIns!CannotWrite, Moves, Filling, SignIns!Login
  <1>12. ASSUME NEW p \in Procs, SignIns!Crash(p) PROVE RaceInv'
    BY <1>0, <1>12, ReturnStep, RaceKept DEF SignIns!Crash, Moves, Filling, SignIns!Login
  <1>13. CASE SignIns!SignIn
    <2> SUFFICES ASSUME ~raced' PROVE RaceInv'
      BY DEF RaceInv
    <2>1. \A q \in Procs : ~Filling(q)
      BY <1>13, <1>0, Zenon DEF SignIns!SignIn, Filling
    <2> QED
      BY <1>13, <2>1
         DEF SignIns!SignIn, RaceInv, SignIns!LatestLoginStays, SignIns!Loads, Filling
  <1>14. CASE SignIns!SignInFill
    <2> SUFFICES ASSUME ~raced' PROVE RaceInv'
      BY DEF RaceInv
    <2>1. UNCHANGED <<job, live>> /\ signIn = "filling" /\ signIn' = "idle"
          /\ store' = SignIns!Creds(FirstToken, TRUE, FALSE)
      BY <1>14 DEF SignIns!SignInFill, FirstToken
    <2>2. FirstToken \in Tokens /\ FirstToken.login = SignIns!Login
      BY <2>1, TokenFacts, LoginFacts DEF SignInType, FirstToken
    <2>3. store'.token = FirstToken /\ \A q \in Procs : ~Filling(q)'
      BY <1>0, <2>1, <2>2, CredsFacts DEF RaceInv, Filling
    <2> QED
      BY <2>1, <2>2, <2>3 DEF RaceInv, SignIns!LatestLoginStays, SignIns!Login
  <1>15. CASE SignIns!SignOut
    BY <1>0, <1>15, CredsFacts
       DEF SignIns!SignOut, RaceInv, SignIns!LatestLoginStays, SignIns!Loads, Filling,
           SignIns!Login
  <1>16. CASE SignIns!Expire
    <2>1. store \in Creds /\ store.token \in Tokens /\ UNCHANGED <<job, live, signIn>>
          /\ SignIns!Loads
      BY <1>16, LoadsFact DEF SignIns!Expire, SignInType, Creds
    <2>2. store'.token = store.token
      BY <1>16, <2>1, CredsFacts DEF SignIns!Expire
    <2> QED
      BY <1>0, <2>1, <2>2
         DEF RaceInv, SignIns!LatestLoginStays, SignIns!Loads, Filling, SignIns!Login
  <1>17. CASE UNCHANGED SignIns!vars
    BY <1>0, <1>17, RaceKept DEF SignIns!vars, Filling, SignIns!Login
  <1> QED
    BY <1>1, <1>2, <1>3, <1>4, <1>5, <1>6, <1>7, <1>8, <1>9, <1>10, <1>11, <1>12, <1>13,
       <1>14, <1>15, <1>16, <1>17 DEF SignIns!Next, SignIns!Run

----------------------------------------------------------------------------
(* What is stored works *)

LEMMA WorksInit == SignIns!Init => WorksInv
  BY DEF SignIns!Init, WorksInv, SignIns!Loads, SignIns!Idle, Filling

\* Whoever is about to store a successor stays so.
LEMMA WorksKept ==
  ASSUME UNCHANGED live,
         \A q \in Procs : job[q].at \in {"compare", "write"} =>
           /\ job'[q].at \in {"compare", "write"}
           /\ job'[q].sent = job[q].sent /\ job'[q].write = job[q].write
  PROVE  \A t : Works(t) => Works(t)'
  BY DEF Works

LEMMA StoreWorksKept ==
  ASSUME WorksInv, UNCHANGED <<store, live>>, ~raced' => ~raced, ~spilt' => ~spilt,
         \A q \in Procs : job[q].at \in {"compare", "write"} =>
           /\ job'[q].at \in {"compare", "write"}
           /\ job'[q].sent = job[q].sent /\ job'[q].write = job[q].write,
         \A q \in Procs : Filling(q)' => Filling(q) /\ job'[q].write = job[q].write
  PROVE  WorksInv'
  BY WorksKept DEF WorksInv, SignIns!Loads

\* A refused mark is no successor.
LEMMA MarksDoNotWork ==
  ASSUME StoredInv, NEW p \in Procs, job[p].at = "write", job[p].write.refused, NEW t,
         job[p].sent = t
  PROVE  job[p].write.token # live[t.login] /\ live[t.login] # t
  BY DEF StoredInv, RefusedInv

LEMMA WorksNext ==
  ASSUME SignInType, SignInType', FlagType, StoredInv, RaceInv, WorksInv,
         [SignIns!Next]_(SignIns!vars)
  PROVE  WorksInv'
  <1> USE DEF SignIns!history, SignIns!At
  <1>0. (~raced' => ~raced) /\ (~spilt' => ~spilt)
    BY FlagsNext
  <1>1. ASSUME NEW p \in Procs, SignIns!Call(p) PROVE WorksInv'
    BY <1>0, <1>1, GoToStep, StoreWorksKept DEF SignIns!Call, Moves, Filling, Steps
  <1>2. ASSUME NEW p \in Procs, SignIns!GetLock(p) PROVE WorksInv'
    BY <1>0, <1>2, GoToStep, StoreWorksKept DEF SignIns!GetLock, Moves, Filling, Steps
  <1>3. ASSUME NEW p \in Procs, SignIns!Recheck(p) PROVE WorksInv'
    BY <1>0, <1>3, ReturnStep, SendStep, LoadsFact, StoreWorksKept
       DEF SignIns!Recheck, SignIns!Refreshable, Moves, Filling
  <1>4. ASSUME NEW p \in Procs, SignIns!Refresh(p) PROVE WorksInv'
    <2>0. Sent(p) /\ job[p].at = "send" /\ UNCHANGED store
      BY <1>4 DEF SignIns!Refresh, Sent
    <2>1. PICK t \in Tokens : t = job[p].sent
      BY <2>0, SentToken
    <2>2. PICK c : c = SignIns!Creds(SignIns!Successor(t), TRUE, FALSE)
      OBVIOUS
    <2>3. CASE /\ live[t.login] = t /\ live' = [live EXCEPT ![t.login] = SignIns!Successor(t)]
               /\ job' = [job EXCEPT ![p].at = "compare", ![p].write = c]
      <3>1. /\ live'[t.login] = SignIns!Successor(t) /\ SignIns!Successor(t) \in Tokens
            /\ ~Unstored(t)
        BY <2>0, <2>1, <2>3, Rotates DEF StoredInv, UnstoredInv
      <3>2. c \in Creds /\ c.token = SignIns!Successor(t)
        BY <2>2, <3>1, CredsFacts
      <3>3. Moves(p, "compare", t, c, job[p].seen)
        BY <2>1, <2>3, <3>2, AnswerStep
      <3>4. Works(t)'
        BY <3>1, <3>2, <3>3 DEF Works, Moves
      <3>5. ASSUME NEW v \in Tokens, Issued(v), Works(v), v # t PROVE Works(v)'
        <4>1. t.login \in 1..Len(live) /\ v.login \in 1..Len(live)
          BY <2>0, <2>1, <3>5 DEF StoredInv, KnownInv, Issued, SignIns!Login
        <4>2. v.login # t.login => live'[v.login] = live[v.login]
          BY <2>3, <4>1 DEF SignInType
        <4>3. CASE live[v.login] = v
          BY <2>3, <3>5, <4>2, <4>3 DEF Works
        <4>4. CASE \E q \in Procs : /\ job[q].at \in {"compare", "write"} /\ job[q].sent = v
                                    /\ job[q].write.token = live[v.login]
          <5>1. PICK q \in Procs : /\ job[q].at \in {"compare", "write"} /\ job[q].sent = v
                                   /\ job[q].write.token = live[v.login]
            BY <4>4
          <5>2. q # p /\ job'[q] = job[q]
            BY <2>0, <3>3, <5>1 DEF Moves
          <5>3. v.login # t.login
            <6>1. CASE job[q].write.refused
              <7>1. job[q].at = "write"
                BY <5>1, <6>1 DEF StoredInv, KnownInv
              <7> QED
                BY <5>1, <6>1, <7>1, MarksDoNotWork
            <6>2. CASE ~job[q].write.refused
              <7>1. Unstored(job[q].write.token)
                BY <5>1, <6>2 DEF Unstored, Answered, Stores
              <7> QED
                BY <2>3, <3>1, <5>1, <7>1
            <6> QED
              BY <6>1, <6>2
          <5> QED
            BY <4>2, <5>1, <5>2, <5>3 DEF Works
        <4> QED
          BY <3>5, <4>3, <4>4 DEF Works
      <3>6. \A q \in Procs : Filling(q)' => Filling(q) /\ job'[q].write = job[q].write
        BY <3>3 DEF Moves, Filling
      <3>7. SignIns!Loads => Issued(store.token) /\ store.token \in Tokens
        BY DEF StoredInv, KnownInv, Issued
      <3>8. \A q \in Procs : Filling(q) => Issued(job[q].write.token)
                                            /\ job[q].write.token \in Tokens
        BY DEF StoredInv, KnownInv, Issued, Filling, Stores
      <3>9. \A v \in Tokens : Issued(v) /\ Works(v) => Works(v)'
        BY <3>4, <3>5
      <3>10. SignIns!Loads' <=> SignIns!Loads
        BY <2>0 DEF SignIns!Loads
      <3> QED
        BY <1>0, <2>0, <3>6, <3>7, <3>8, <3>9, <3>10 DEF WorksInv
    <2>4. CASE job' = [job EXCEPT ![p].at = "refused"] /\ UNCHANGED live
      <3>1. Moves(p, "refused", t, job[p].write, job[p].seen)
        BY <2>1, <2>4, GoToStep DEF SignIns!GoTo, Steps
      <3> QED
        BY <1>0, <2>0, <2>4, <3>1, StoreWorksKept DEF Moves, Filling
    <2> QED
      BY <1>4, <2>1, <2>2, <2>3, <2>4 DEF SignIns!Refresh
  <1>5. ASSUME NEW p \in Procs, SignIns!LoseAnswer(p) PROVE WorksInv'
    <2>1. CASE live' = live
      BY <1>0, <1>5, <2>1, GoToStep, StoreWorksKept
         DEF SignIns!LoseAnswer, Moves, Filling, Steps
    <2>2. CASE spilt' = TRUE
      BY <2>2 DEF WorksInv
    <2> QED
      BY <1>5, <2>1, <2>2 DEF SignIns!LoseAnswer
  <1>6. ASSUME NEW p \in Procs, SignIns!Compare(p) PROVE WorksInv'
    <2>1. CASE SignIns!ToWrite(p, job[p].write)
      BY <1>0, <1>6, <2>1, ToWriteStep, JobFacts, StoreWorksKept
         DEF SignIns!Compare, Moves, Filling
    <2>2. CASE /\ ~(SignIns!Loads /\ store.token = job[p].sent)
               /\ SignIns!Return(p) /\ spilt' = (spilt \/ store = SignIns!Torn)
      <3> SUFFICES ASSUME ~raced', ~spilt' PROVE WorksInv'
        BY DEF WorksInv
      <3>1. ~raced /\ ~spilt /\ store # SignIns!Torn
        BY <1>0, <2>2, Zenon
      <3>2. Moves(p, "idle", SignIns!NoToken, SignIns!None, SignIns!NoToken)
            /\ UNCHANGED <<store, live>>
        BY <1>6, <2>2, ReturnStep DEF SignIns!Compare
      <3>3. \A q \in Procs : ~Filling(q)'
        BY <3>1, <3>2 DEF RaceInv, Filling, Moves
      <3>4. SignIns!Loads => Works(store.token)'
        BY <2>2, <3>1, <3>2 DEF WorksInv, Works, Moves
      <3> QED
        BY <3>2, <3>3, <3>4 DEF WorksInv, SignIns!Loads
    <2> QED
      BY <1>6, <2>1, <2>2 DEF SignIns!Compare
  <1>7. ASSUME NEW p \in Procs, SignIns!Reload(p) PROVE WorksInv'
    BY ZenonT(30), <1>0, <1>7, ReturnStep, SendStep, GoToStep, LoadsFact, StoreWorksKept
       DEF SignIns!Reload, Moves, Filling, Steps
  <1>8. ASSUME NEW p \in Procs, SignIns!Mark(p) PROVE WorksInv'
    <2>1. SignIns!Loads => [store EXCEPT !.refused = TRUE] \in Creds
      BY CredsFacts, LoadsFact DEF SignInType, Creds
    <2> QED
      BY <1>0, <1>8, <2>1, ReturnStep, ToWriteStep, StoreWorksKept
         DEF SignIns!Mark, Moves, Filling
  <1>9. ASSUME NEW p \in Procs, SignIns!Truncate(p) PROVE WorksInv'
    <2> SUFFICES ASSUME ~raced', ~spilt' PROVE WorksInv'
      BY DEF WorksInv
    <2>1. ~raced /\ ~spilt /\ store.token = job[p].seen
      BY <1>9, <1>0, Zenon DEF SignIns!Truncate
    <2>2. Moves(p, "fill", job[p].sent, job[p].write, job[p].seen) /\ job[p].at = "write"
          /\ UNCHANGED live /\ ~SignIns!Loads'
      BY <1>9, GoToStep DEF SignIns!Truncate, Steps, SignIns!Loads
    <2>3. store.token \in Tokens
      BY <2>1, <2>2 DEF StoredInv, KnownInv
    <2>4. SignIns!Loads /\ store # SignIns!Torn
      BY <2>3, LoadsFact, CredsFacts, TokenFacts
    <2>5. \A q \in Procs : Filling(q)' => q = p
      BY <2>1, <2>2, <2>4 DEF RaceInv, Filling, Moves
    <2>6. PICK w : w = job[p].write.token
      OBVIOUS
    <2>7. Works(w)'
      <3>1. CASE job[p].write.refused
        <4>1. w = store.token /\ w = job[p].sent
          BY <2>1, <2>2, <2>6, <3>1 DEF StoredInv, RefusedInv
        <4>2. Works(w)
          BY <2>1, <2>4, <4>1 DEF WorksInv
        <4>3. live[w.login] # w
          BY <2>2, <3>1, <4>1, MarksDoNotWork
        <4> QED
          BY <2>2, <2>6, <4>2, <4>3 DEF Works, Moves
      <3>2. CASE ~job[p].write.refused
        BY <2>2, <2>6, <3>2 DEF StoredInv, UnstoredInv, Answered, Stores, Works
      <3> QED
        BY <3>1, <3>2
    <2>8. job'[p].write.token = w
      BY <2>2, <2>6 DEF Moves
    <2> QED
      BY <2>2, <2>5, <2>7, <2>8 DEF WorksInv
  <1>10. ASSUME NEW p \in Procs, SignIns!Fill(p) PROVE WorksInv'
    <2> SUFFICES ASSUME ~raced', ~spilt' PROVE WorksInv'
      BY DEF WorksInv
    <2>1. ~raced /\ ~spilt
      BY <1>0
    <2>2. Moves(p, "idle", SignIns!NoToken, SignIns!None, SignIns!NoToken) /\ job[p].at = "fill"
          /\ UNCHANGED live /\ store' = job[p].write
      BY <1>10, ReturnStep DEF SignIns!Fill
    <2>3. \A q \in Procs : ~Filling(q)'
      BY <2>1, <2>2 DEF RaceInv, Filling, Moves
    <2>4. PICK w : w = job[p].write.token
      OBVIOUS
    <2>5. Works(w)
      BY <2>1, <2>2, <2>4 DEF WorksInv, Filling
    <2>6. Works(w)'
      BY <2>2, <2>5 DEF Works, Moves
    <2> QED
      BY <2>2, <2>3, <2>4, <2>6 DEF WorksInv
  <1>11. ASSUME NEW p \in Procs, SignIns!CannotWrite(p) PROVE WorksInv'
    <2> SUFFICES ASSUME ~raced', ~spilt' PROVE WorksInv'
      BY DEF WorksInv
    <2>1. ~raced /\ ~spilt /\ job[p].write.refused
      BY <1>0, <1>11 DEF SignIns!CannotWrite
    <2>2. Moves(p, "idle", SignIns!NoToken, SignIns!None, SignIns!NoToken) /\ job[p].at = "write"
          /\ UNCHANGED <<store, live>>
      BY <1>11, ReturnStep DEF SignIns!CannotWrite
    <2>3. \A t : Works(t) => Works(t)'
      <3> SUFFICES ASSUME NEW t, Works(t) PROVE Works(t)'
        OBVIOUS
      <3>1. job[p].sent = t => job[p].write.token # live[t.login]
        BY <2>1, <2>2, MarksDoNotWork
      <3> QED
        BY <2>2, <3>1 DEF Works, Moves
    <2>4. \A q \in Procs : Filling(q)' => Filling(q) /\ job'[q].write = job[q].write
      BY <2>2 DEF Filling, Moves
    <2> QED
      BY <2>1, <2>2, <2>3, <2>4 DEF WorksInv, SignIns!Loads
  <1>12. ASSUME NEW p \in Procs, SignIns!Crash(p) PROVE WorksInv'
    <2> SUFFICES ASSUME ~raced', ~spilt' PROVE WorksInv'
      BY DEF WorksInv
    <2>1. ~raced /\ ~spilt /\ job[p].at \notin {"compare", "write", "fill"}
      BY <1>0, <1>12, Zenon DEF SignIns!Crash
    <2> QED
      BY <1>0, <1>12, <2>1, ReturnStep, StoreWorksKept DEF SignIns!Crash, Moves, Filling
  <1>13. CASE SignIns!SignIn
    <2> SUFFICES ASSUME ~raced', ~spilt' PROVE WorksInv'
      BY DEF WorksInv
    <2>1. \A q \in Procs : ~Filling(q)
      BY <1>13, Zenon DEF SignIns!SignIn, Filling
    <2> QED
      BY <1>13, <2>1 DEF SignIns!SignIn, WorksInv, SignIns!Loads, Filling
  <1>14. CASE SignIns!SignInFill
    <2> SUFFICES ASSUME ~raced', ~spilt' PROVE WorksInv'
      BY DEF WorksInv
    <2>1. UNCHANGED <<job, live>> /\ signIn = "filling"
          /\ store' = SignIns!Creds(FirstToken, TRUE, FALSE)
      BY <1>14 DEF SignIns!SignInFill, FirstToken
    <2>2. PICK f : f = FirstToken
      OBVIOUS
    <2>3. f \in Tokens /\ f.login = SignIns!Login /\ live[f.login] = f
      BY <2>1, <2>2, TokenFacts, LoginFacts DEF SignInType, FirstToken, StoredInv, UnstoredInv
    <2>4. store'.token = f /\ \A q \in Procs : ~Filling(q)'
      BY <1>0, <2>1, <2>2, <2>3, CredsFacts DEF RaceInv, Filling
    <2> QED
      BY <2>1, <2>3, <2>4 DEF WorksInv, Works
  <1>15. CASE SignIns!SignOut
    BY <1>0, <1>15, CredsFacts
       DEF SignIns!SignOut, RaceInv, WorksInv, SignIns!Loads, Filling
  <1>16. CASE SignIns!Expire
    <2>1. store \in Creds /\ store.token \in Tokens /\ UNCHANGED <<job, live>>
          /\ SignIns!Loads
      BY <1>16, LoadsFact DEF SignIns!Expire, SignInType, Creds
    <2>2. store'.token = store.token
      BY <1>16, <2>1, CredsFacts DEF SignIns!Expire
    <2> QED
      BY <1>0, <2>1, <2>2 DEF RaceInv, WorksInv, Works, Filling, SignIns!Loads
  <1>17. CASE UNCHANGED SignIns!vars
    BY <1>0, <1>17, StoreWorksKept DEF SignIns!vars, Filling
  <1> QED
    BY <1>1, <1>2, <1>3, <1>4, <1>5, <1>6, <1>7, <1>8, <1>9, <1>10, <1>11, <1>12, <1>13,
       <1>14, <1>15, <1>16, <1>17 DEF SignIns!Next, SignIns!Run

----------------------------------------------------------------------------
(* Theorems *)

LEMMA SignInsInit == SignIns!Init => SignInsHold
  BY SignInTypeInit, FlagsInit, StoredInit, OnceInit, RaceInit, WorksInit
     DEF SignInsHold, StoredInv

LEMMA SignInsNext == SignInsHold /\ [SignIns!Next]_(SignIns!vars) => SignInsHold'
  <1> SUFFICES ASSUME SignInsHold, [SignIns!Next]_(SignIns!vars) PROVE SignInsHold'
    OBVIOUS
  <1>1. SignInType /\ FlagType /\ StoredInv /\ KnownInv /\ OnceInv /\ RaceInv /\ WorksInv
    BY DEF SignInsHold, StoredInv
  <1>2. SignInType'
    BY <1>1, SignInTypeNext
  <1>3. FlagType' /\ StoredInv' /\ OnceInv' /\ RaceInv' /\ WorksInv'
    BY <1>1, <1>2, FlagsNext, StoredNext, OnceNext, RaceNext, WorksNext
  <1> QED
    BY <1>2, <1>3 DEF SignInsHold, StoredInv

LEMMA SignInsPromise ==
  SignInsHold => /\ SignIns!TypeOK
                 /\ SignIns!StoredLoginWorks /\ SignIns!LatestLoginStays
                 /\ SignIns!MarkedWasRefused /\ SignIns!RefusedOnce
  <1> SUFFICES ASSUME SignInsHold
               PROVE  /\ SignIns!TypeOK
                      /\ SignIns!StoredLoginWorks /\ SignIns!LatestLoginStays
                      /\ SignIns!MarkedWasRefused /\ SignIns!RefusedOnce
    OBVIOUS
  <1>1. SignIns!TypeOK
    BY SignInTypes DEF SignInsHold
  <1>2. SignIns!StoredLoginWorks
    BY DEF SignInsHold, WorksInv, Works, SignIns!StoredLoginWorks
  <1>3. SignIns!LatestLoginStays
    BY DEF SignInsHold, RaceInv, SignIns!LatestLoginStays
  <1>4. SignIns!MarkedWasRefused
    BY DEF SignInsHold, RefusedInv
  <1>5. SignIns!RefusedOnce
    BY DEF SignInsHold, OnceInv, Once, SignIns!RefusedOnce, Tokens
  <1> QED
    BY <1>1, <1>2, <1>3, <1>4, <1>5

Hold == (which = "sign-ins" => SignInsHold) /\ (which = "overlays" => OverlaysHold)

\* Every reachable state of the parts satisfies their inductive invariants.
THEOREM Inductive == Spec => []Hold
  <1>1. Init => Hold
    BY SignInsInit, OverlaysInit DEF Init, Hold
  <1>2. Hold /\ [Next]_all => Hold'
    <2> SUFFICES ASSUME Hold, [Next]_all PROVE Hold'
      OBVIOUS
    <2>1. CASE SignIn(SignIns!Next)
      BY <2>1, SignInsNext DEF SignIn, Hold
    <2>2. CASE Overlay(Overlays!Next)
      BY <2>2, OverlaysNext DEF Overlay, Hold
    <2>3. CASE Trace(Ingress!Next)
      BY <2>3 DEF Trace, Hold
    <2>4. CASE UNCHANGED all
      <3>1. UNCHANGED which /\ UNCHANGED SignIns!vars /\ UNCHANGED Overlays!vars
        BY <2>4 DEF all, SignIns!vars, Overlays!vars
      <3> QED
        BY <3>1, SignInsNext, OverlaysNext DEF Hold
    <2> QED
      BY <2>1, <2>2, <2>3, <2>4 DEF Next
  <1> QED
    BY <1>1, <1>2, PTL DEF Spec

\* What is stored is the latest login and the server accepts it, a login that
\* works is never marked as refused, and a process that was refused does not
\* send the same token again (credentials.rs, api/client.rs): whatever the
\* number of processes, logins, expiries and faults.
THEOREM SignInsAreKept == Spec => []SignInsWork
  <1>1. Hold => SignInsWork
    BY SignInsPromise DEF Hold, SignInsWork
  <1> QED
    BY <1>1, Inductive, PTL

\* A command is overlaid with both of its wrapper's states or with none, and the
\* worker is never left asleep beside both (apply_wrapper_state_overlay).
THEOREM OverlaysAreWhole == Spec => []OverlaysMeet
  <1>1. Hold => OverlaysMeet
    BY DEF Hold, OverlaysHold, OverlaysMeet
  <1> QED
    BY <1>1, Inductive, PTL
=============================================================================
