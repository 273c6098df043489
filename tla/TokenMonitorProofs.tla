------------------------- MODULE TokenMonitorProofs -------------------------
(***************************************************************************)
(* Proofs about TokenMonitor, for any number of tokens, any expiries, and  *)
(* any number of edits, toggles and starts.                                *)
(***************************************************************************)
EXTENDS TokenMonitor, TLAPS

\* Every step keeps the types.
LEMMA TypeStep == TypeOK /\ [Next]_vars => TypeOK'
<1> SUFFICES ASSUME TypeOK, [Next]_vars PROVE TypeOK'
    OBVIOUS
<1> USE TokenAssumption, TimeAssumption, BoundAssumption DEF TypeOK
<1>1. CASE Clock
      BY <1>1 DEF Clock, user_vars, token_vars
<1>2. CASE Edit
  <2>1. env' \in Contents
        BY <1>2 DEF Edit
  <2>2. env'.mtime \in Mtimes
        BY <2>1 DEF Contents
  <2> QED  BY <1>2, <2>1, <2>2 DEF Edit, token_vars
<1>3. CASE Toggle
      BY <1>3 DEF Toggle, token_vars
<1>4. CASE Start
  <2>1. env.tok \in Maybe
        BY DEF Contents, Maybe
  <2> QED  BY <1>4, <2>1 DEF Start, user_vars
<1>5. CASE Stop
  <2>1. monitor' \in [tok : Maybe, finds : Flags \cup {"fresh", "idle"}]
        BY <1>5 DEF Stop, Idle, Maybe
  <2>2. client' \in Maybe /\ armed' \in Maybe
        BY <1>5 DEF Stop, Maybe
  <2> QED  BY <1>5, <2>1, <2>2 DEF Stop, user_vars
<1>6. CASE Stat
  <2>1. env.mtime \in Mtimes
        BY DEF Contents
  <2> QED  BY <1>6, <2>1 DEF Stat, user_vars
<1>7. CASE Reload \/ ReloadFails
  <2>1. Readable \in Maybe
        BY DEF Readable, Contents, Maybe
  <2> QED  BY <1>7, <2>1 DEF Reload, ReloadFails, user_vars, Maybe
<1>8. CASE Look
  <2>1. Threshold(client) \in Flags \cup {"fresh"}
        BY DEF Threshold, Flags
  <2> QED  BY <1>8, <2>1 DEF Look, user_vars, token_vars
<1>9. CASE Judge
  <2>1. /\ UNCHANGED <<now, env, mtimes, toggles, up, client, seen, watcher, unread, starts>>
        /\ monitor' = Idle
        BY <1>9 DEF Judge, Expire, Warn, Rearm, Repeat, Judged, user_vars, token_vars
  <2>2. monitor' \in [tok : Maybe, finds : Flags \cup {"fresh", "idle"}]
        BY <2>1 DEF Idle, Maybe
  <2>3. live' \in BOOLEAN /\ alerted' \subseteq Flags /\ armed' \in Maybe
        BY <1>9 DEF Judge, Expire, Warn, Rearm, Repeat, Flags, Maybe
  <2> QED  BY <2>1, <2>2, <2>3
<1>10. CASE UNCHANGED vars
       BY <1>10 DEF vars, user_vars, token_vars
<1> QED  BY <1>1, <1>2, <1>3, <1>4, <1>5, <1>6, <1>7, <1>8, <1>9, <1>10 DEF Next, Watch

\* Every variable keeps its type.
THEOREM TypeCorrect == Spec => []TypeOK
<1>1. Init => TypeOK
  <2> SUFFICES ASSUME Init PROVE TypeOK
      OBVIOUS
  <2>1. env \in Contents /\ mtimes \subseteq Mtimes
        BY BoundAssumption DEF Init, Mtimes
  <2>2. monitor \in [tok : Maybe, finds : Flags \cup {"fresh", "idle"}]
        BY DEF Init, Idle, Maybe
  <2>3. now \in 0..MaxTime /\ toggles \in 0..MaxToggles /\ starts \in 0..MaxStarts
        BY BoundAssumption DEF Init
  <2>4. up \in BOOLEAN /\ live \in BOOLEAN
        BY Zenon DEF Init
  <2>5. client \in Maybe /\ armed \in Maybe /\ {seen, unread} \subseteq Mtimes \cup {0}
        BY DEF Init, Maybe
  <2>6. alerted \subseteq Flags /\ watcher \in {"idle", "read"}
        BY DEF Init
  <2> QED  BY <2>1, <2>2, <2>3, <2>4, <2>5, <2>6 DEF TypeOK
<1> QED  BY <1>1, TypeStep, PTL DEF Spec

\* Every step keeps FreshTokenIsArmed: the monitor arms a token only when it
\* clears the flags, disarms it when it sets expired_alerted, and a reload or
\* the end of the process disarms it with the client's token.
LEMMA ArmedStep == FreshTokenIsArmed /\ [Next]_vars => FreshTokenIsArmed'
<1> SUFFICES ASSUME FreshTokenIsArmed, [Next]_vars PROVE FreshTokenIsArmed'
    OBVIOUS
<1> USE DEF FreshTokenIsArmed
<1>1. CASE Clock \/ Edit \/ Toggle \/ Stat \/ ReloadFails \/ Look
      BY <1>1 DEF Clock, Edit, Toggle, Stat, ReloadFails, Look, token_vars
<1>2. CASE Start
      BY <1>2 DEF Start
<1>3. CASE Stop
      BY <1>3 DEF Stop
<1>4. CASE Reload
      BY <1>4 DEF Reload
<1>5. CASE Judge
  <2>1. up' = up /\ client' = client
        BY <1>5 DEF Judge, Expire, Warn, Rearm, Repeat, Judged, token_vars
  <2>2. CASE Expire
        BY <2>2 DEF Expire
  <2>3. CASE Warn
        BY <2>1, <2>3 DEF Warn
  <2>4. CASE Rearm
    <3>1. up
          BY <2>4 DEF Rearm, Judged
    <3> QED  BY <2>1, <2>4, <3>1 DEF Rearm
  <2>5. CASE Repeat
        BY <2>1, <2>5 DEF Repeat
  <2> QED  BY <1>5, <2>2, <2>3, <2>4, <2>5 DEF Judge
<1>6. CASE UNCHANGED vars
      BY <1>6 DEF vars, token_vars
<1> QED  BY <1>1, <1>2, <1>3, <1>4, <1>5, <1>6 DEF Next, Watch

\* A token found fresh ends live trading when it expires: its expiry is hidden
\* by no flag until then.
THEOREM ExpiryIsNotHidden == Spec => []FreshTokenIsArmed
<1>1. Init => FreshTokenIsArmed
      BY DEF Init, FreshTokenIsArmed
<1> QED  BY <1>1, ArmedStep, PTL DEF Spec
=============================================================================
