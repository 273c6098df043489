---------------------------- MODULE TokenMonitor ----------------------------
(***************************************************************************)
(* The access token: the user pastes a new one into .env each morning,     *)
(* token_watcher_job of app/worker/jobs.py reloads it when the file's      *)
(* mtime has changed, and token_expiry_monitor_job looks at the time it    *)
(* has left, warns, and switches live trading off when it has expired.     *)
(*                                                                         *)
(* Both jobs run in threads of the worker, each at most once at a time,    *)
(* and share the DhanClient and tok_state.  The user edits the file and    *)
(* the web process sets live_enabled between any two of their steps.       *)
(***************************************************************************)
EXTENDS Integers, FiniteSets

CONSTANTS
    Tokens,
    NoToken,     \* an empty DHAN_ACCESS_TOKEN
    Expires,     \* the exp claim of each token that can be parsed
    OneHour,     \* 3600 s
    TenMinutes,  \* 600 s
    MaxTime,     \* bound: the clock
    MaxEdits,    \* bound: edits of .env
    MaxToggles,  \* bound: uses of the live switch
    MaxStarts    \* bound: starts of the worker

ASSUME TokenAssumption ==
    /\ NoToken \notin Tokens
    /\ DOMAIN Expires \subseteq Tokens /\ Expires \in [DOMAIN Expires -> Int]
ASSUME TimeAssumption ==
    TenMinutes \in Nat /\ OneHour \in Nat /\ 0 < TenMinutes /\ TenMinutes < OneHour
ASSUME BoundAssumption ==
    MaxTime \in Nat /\ MaxEdits \in Nat \ {0} /\ MaxToggles \in Nat /\ MaxStarts \in Nat

VARIABLES
    now,
    env,      \* .env: the token in it, its form, its mtime
    mtimes,   \* the mtimes it has had
    up,       \* whether the worker is running
    client,   \* DhanClient._access_token
    seen,     \* tok_state["mtime"], 0 for none
    alerted,  \* the *_alerted flags of tok_state that are set
    watcher,  \* where token_watcher_job is
    monitor,  \* where token_expiry_monitor_job is: what it has read
    live,     \* settings.live_enabled
    toggles, starts,
    unread,   \* for the properties alone: the mtime that was noted when reading
              \* the file failed, 0 for none
    armed     \* for the properties alone: the token, if the monitor has found it
              \* with more than an hour left since it was loaded, and has not
              \* ended live trading for it

user_vars == <<env, mtimes, toggles>>
token_vars == <<client, seen, watcher, unread>>
vars == <<now, user_vars, up, token_vars, alerted, monitor, live, starts, armed>>

Maybe == Tokens \cup {NoToken}
Mtimes == 1..(MaxEdits + 1)
Flags == {"expired_alerted", "ten_min_alerted", "sixty_min_alerted"}

\* "strict": a file that the settings read and dotenv_values does not: the token
\* is its first line, after a byte order mark, or it is not UTF-8.
Contents == [tok : Tokens, form : {"plain", "strict"}, mtime : Mtimes]
                \cup [tok : {NoToken}, form : {"plain", "missing"}, mtime : Mtimes]

SecondsLeft(t) == Expires[t] - now

\* What the monitor finds: which of its thresholds has been passed.
Threshold(t) ==
    CASE SecondsLeft(t) <= 0 -> "expired_alerted"
      [] SecondsLeft(t) \in 1..TenMinutes -> "ten_min_alerted"
      [] SecondsLeft(t) \in TenMinutes + 1..OneHour -> "sixty_min_alerted"
      [] OTHER -> "fresh"

Idle == [tok |-> NoToken, finds |-> "idle"]

Init ==
    /\ now = 0
    /\ env \in {c \in Contents : c.mtime = 2}
    /\ mtimes = {2}
    /\ up = FALSE
    /\ client = NoToken /\ seen = 0 /\ alerted = {}
    /\ watcher = "idle" /\ monitor = Idle
    /\ live \in BOOLEAN
    /\ toggles = 0 /\ starts = 0 /\ unread = 0
    /\ armed = NoToken

Clock ==
    /\ now < MaxTime
    /\ now' = now + 1
    /\ UNCHANGED <<user_vars, up, token_vars, alerted, monitor, live, starts, armed>>

\* The user, or an editor, writes or removes .env.  Its mtime is new, but need
\* not be later: the file may be a restored copy.
Edit ==
    /\ env' \in {c \in Contents : c.mtime \notin mtimes}
    /\ mtimes' = mtimes \cup {env'.mtime}
    /\ UNCHANGED <<now, toggles, up, token_vars, alerted, monitor, live, starts, armed>>

\* POST /settings/live-enabled, whatever the state of the token.
Toggle ==
    /\ toggles < MaxToggles
    /\ toggles' = toggles + 1
    /\ live' = ~live
    /\ UNCHANGED <<now, env, mtimes, up, token_vars, alerted, monitor, starts, armed>>

\* Mutant: the client is given the file, not the token in it.
StartWithFile ==
    /\ ~up /\ starts < MaxStarts
    /\ up' = TRUE
    /\ starts' = starts + 1
    /\ client' = env.form
    /\ UNCHANGED <<now, user_vars, seen, watcher, unread, alerted, monitor, live, armed>>

\* The worker takes its token from the settings, which strip a byte order mark
\* and replace what is not UTF-8.
Start ==
    /\ ~up /\ starts < MaxStarts
    /\ up' = TRUE
    /\ starts' = starts + 1
    /\ client' = env.tok
    /\ UNCHANGED <<now, user_vars, seen, watcher, unread, alerted, monitor, live, armed>>

\* tok_state goes with the process.
Stop ==
    /\ up
    /\ up' = FALSE
    /\ client' = NoToken /\ seen' = 0 /\ alerted' = {} /\ unread' = 0
    /\ watcher' = "idle" /\ monitor' = Idle
    /\ armed' = NoToken
    /\ UNCHANGED <<now, user_vars, live, starts>>

(***************************************************************************)
(* token_watcher_job                                                       *)
(***************************************************************************)

\* Mutant: only a later mtime is a change.
StatForLater ==
    /\ up /\ watcher = "idle"
    /\ env.form # "missing"
    /\ env.mtime > seen
    /\ seen' = env.mtime
    /\ watcher' = "read"
    /\ UNCHANGED <<now, user_vars, up, client, unread, alerted, monitor, live, starts, armed>>

\* The file has another mtime than last time, which is noted at once.
Stat ==
    /\ up /\ watcher = "idle"
    /\ env.form # "missing"
    /\ env.mtime # seen
    /\ seen' = env.mtime
    /\ watcher' = "read"
    /\ UNCHANGED <<now, user_vars, up, client, unread, alerted, monitor, live, starts, armed>>

Readable == IF env.form = "strict" THEN NoToken ELSE env.tok

Reload ==
    /\ up /\ watcher = "read"
    /\ watcher' = "idle"
    /\ client' = IF Readable = NoToken THEN client ELSE Readable
    /\ armed' = IF client' = client THEN armed ELSE NoToken
    /\ UNCHANGED <<now, user_vars, up, seen, unread, alerted, monitor, live, starts>>

\* The read raises, the editor having the file locked: the job ends, and with
\* this mtime noted it will not read the file again.
ReloadFails ==
    /\ up /\ watcher = "read"
    /\ watcher' = "idle"
    /\ unread' = seen
    /\ UNCHANGED <<now, user_vars, up, client, seen, alerted, monitor, live, starts, armed>>

(***************************************************************************)
(* token_expiry_monitor_job                                                *)
(***************************************************************************)

\* It reads the token once; without an expiry it returns.
Look ==
    /\ up /\ monitor = Idle
    /\ client \in DOMAIN Expires
    /\ monitor' = [tok |-> client, finds |-> Threshold(client)]
    /\ UNCHANGED <<now, user_vars, up, token_vars, alerted, live, starts, armed>>

Judged ==
    /\ up /\ monitor # Idle
    /\ monitor' = Idle
    /\ UNCHANGED <<now, user_vars, up, token_vars, starts>>

\* Mutant: the alert is raised and live trading goes on.
ExpireQuietly ==
    /\ Judged
    /\ monitor.finds = "expired_alerted" /\ "expired_alerted" \notin alerted
    /\ alerted' = alerted \cup {"expired_alerted"}
    /\ armed' = NoToken
    /\ UNCHANGED live

\* Live trading is switched off, once.
Expire ==
    /\ Judged
    /\ monitor.finds = "expired_alerted" /\ "expired_alerted" \notin alerted
    /\ alerted' = alerted \cup {"expired_alerted"}
    /\ live' = FALSE
    /\ armed' = NoToken

Warn ==
    /\ Judged
    /\ monitor.finds \in {"ten_min_alerted", "sixty_min_alerted"} \ alerted
    /\ alerted' = alerted \cup {monitor.finds}
    /\ UNCHANGED <<live, armed>>

\* Mutant: a new token does not clear expired_alerted.
RearmWarnings ==
    /\ Judged
    /\ monitor.finds = "fresh"
    /\ alerted' = alerted \ {"ten_min_alerted", "sixty_min_alerted"}
    /\ armed' = IF client = monitor.tok THEN client ELSE armed
    /\ UNCHANGED live

\* More than an hour left: all three flags are cleared.
Rearm ==
    /\ Judged
    /\ monitor.finds = "fresh"
    /\ alerted' = {}
    /\ armed' = IF client = monitor.tok THEN client ELSE armed
    /\ UNCHANGED live

\* What was to be said has been said.
Repeat ==
    /\ Judged
    /\ monitor.finds \in alerted
    /\ UNCHANGED <<alerted, live, armed>>

Judge == Expire \/ Warn \/ Rearm \/ Repeat

Watch == Stat \/ Reload \/ ReloadFails

Next == Clock \/ Edit \/ Toggle \/ Start \/ Stop \/ Watch \/ Look \/ Judge

\* The scheduler fires both jobs as long as the worker is up.
Spec == Init /\ [][Next]_vars /\ WF_vars(Watch) /\ WF_vars(Look) /\ WF_vars(Judge)

-----------------------------------------------------------------------------

\* Every variable has its type.
TypeOK ==
    /\ now \in 0..MaxTime
    /\ env \in Contents /\ mtimes \subseteq Mtimes
    /\ up \in BOOLEAN /\ live \in BOOLEAN
    /\ client \in Maybe /\ armed \in Maybe
    /\ {seen, unread} \subseteq Mtimes \cup {0}
    /\ alerted \subseteq Flags
    /\ watcher \in {"idle", "read"}
    /\ monitor \in [tok : Maybe, finds : Flags \cup {"fresh", "idle"}]
    /\ toggles \in 0..MaxToggles /\ starts \in 0..MaxStarts

\* A token the monitor has found fresh, and has not yet ended live trading for,
\* is the one the running worker uses, and no flag that an earlier expiry set,
\* or a tick that read the earlier token sets late, hides its own expiry
\* (jobs.py:655-673).
FreshTokenIsArmed ==
    armed # NoToken => up /\ armed = client /\ "expired_alerted" \notin alerted

Expired(t) == t \in DOMAIN Expires /\ SecondsLeft(t) <= 0

\* A token left in .env, which the watcher can read, reaches the client of a
\* running worker, whatever was written before it, however the writes fell
\* between the watcher's look at the mtime and its read, and whether or not the
\* mtime is a later one; unless reading it failed once (jobs.py:631-642).
TokenReachesClient ==
    []<>(up /\ Readable # NoToken /\ unread # env.mtime => client = Readable)

\* Every token the monitor has once found fresh ends live trading when it
\* expires, the second one as well as the first, unless it is replaced or the
\* worker stops before that (jobs.py:655-673).
EveryExpiryEndsLive ==
    \A t \in Tokens :
        (up /\ armed = t /\ Expired(t)) ~> (~live \/ ~up \/ client # t)
=============================================================================
