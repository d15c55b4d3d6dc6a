-------------------------- MODULE LifecycleProofs --------------------------
(***************************************************************************)
(* For any list of transports and any limits: a session is never forgotten *)
(* and never connected twice, leaves nobody waiting for start() when it    *)
(* closes, keeps its token renewed, and replaces a rejected one.           *)
(***************************************************************************)
EXTENDS Lifecycle, TLAPS

Calls == [idx : Nat, step : {"base", "token", "getConversation", "createConversation"}, current : BOOLEAN]

Types ==
    /\ stage \in {"new", "loading", "started"} /\ idx \in Nat /\ socks \in Nat
    /\ stopped \in BOOLEAN /\ armed \in BOOLEAN /\ transport \in BOOLEAN
    /\ rejected \in BOOLEAN /\ calls \subseteq Calls

\* Before #open nothing was started, and disconnect() is remembered; an open
\* session has its transport; a rejected token is being replaced.
Opening ==
    /\ stage # "started" => calls = {} /\ ~transport /\ ~armed
    /\ stage # "started" /\ stopped => early
    /\ st = "open" \/ link # "none" => transport
    /\ rejected /\ ~stopped => pend \/ failed

IInv == Types /\ Opening /\ OneAttempt /\ ReadySettled /\ RefreshOwed

LEMMA InitIInv == Init => IInv
<1> SUFFICES ASSUME Init PROVE IInv
  OBVIOUS
<1>1. Types /\ Opening
  BY DEF Init, Types, Opening
<1>2. OneAttempt
  BY DEF Init, OneAttempt
<1>3. ReadySettled /\ RefreshOwed
  BY DEF Init, ReadySettled, RefreshOwed
<1> QED BY <1>1, <1>2, <1>3 DEF IInv

-----------------------------------------------------------------------------
\* A step that leaves the attempt, its timer and the end of the session alone.
LEMMA Aside ==
  ASSUME IInv, UNCHANGED <<api, st, stopped, calls, transport, socks, armed, idx>>,
         link' # "none" => link # "none",
         rejected' \in BOOLEAN,
         rejected' /\ ~stopped => pend' \/ failed',
         st = "open" => RefreshOwed'
  PROVE  IInv'
BY DEF IInv, Types, Opening, OneAttempt, ReadySettled, RefreshOwed, Valid, api

\* A session that is closed, from a state with or without a transport.
LEMMA ShutStep ==
  ASSUME IInv, Shut, UNCHANGED stage, idx' = idx, transport' = FALSE, link' = "none", socks' = 0,
         calls' \subseteq calls, rejected' \in BOOLEAN,
         stage # "started" => early'
  PROVE  IInv'
<1>1. Types' /\ Opening'
  BY DEF IInv, Types, Opening, Shut, Reject
<1>2. OneAttempt'
  BY DEF IInv, Types, OneAttempt, Valid, Shut
<1>3. ReadySettled' /\ RefreshOwed'
  BY DEF IInv, Types, Opening, ReadySettled, RefreshOwed, Shut, Reject
<1> QED BY <1>1, <1>2, <1>3 DEF IInv

\* An attempt that failed: the timer is armed, or the session is closed.
LEMMA ReconnectStep ==
  ASSUME IInv, NEW opened \in BOOLEAN, ScheduleReconnect(opened), UNCHANGED <<stage, early>>,
         ~stopped, stage = "started", transport' = FALSE, link' = "none", socks' = 0,
         calls' \subseteq calls, \A c \in calls' : ~c.current,
         rejected' \in BOOLEAN, rejected' => pend' \/ failed'
  PROVE  IInv'
<1> DEFINE ends == \/ ~Reconnect.enabled
                   \/ Reconnect.maxAttempts # Infinity /\ attempt' > Reconnect.maxAttempts
<1>1. CASE ends
  <2>1. Shut /\ idx' = idx
    BY <1>1 DEF ScheduleReconnect
  <2> QED BY <2>1, ShutStep DEF IInv, Types
<1>2. CASE ~ends
  <2>1. idx' \in Nat
    <3>1. idx' = idx \/ idx' = idx + 1
      BY <1>2 DEF ScheduleReconnect
    <3>2. idx \in Nat
      BY DEF IInv, Types
    <3> QED BY <3>1, <3>2
  <2>2. st' = "reconnecting" /\ armed' = TRUE /\ UNCHANGED <<stopped, ready>>
    BY <1>2 DEF ScheduleReconnect
  <2>3. Types'
    BY <2>1, <2>2 DEF IInv, Types
  <2>4. Opening'
    BY <2>2 DEF IInv, Types, Opening
  <2>5. OneAttempt'
    BY <2>2 DEF IInv, Types, OneAttempt, Valid
  <2>6. ReadySettled' /\ RefreshOwed'
    BY <2>2 DEF IInv, ReadySettled, RefreshOwed
  <2> QED BY <2>3, <2>4, <2>5, <2>6 DEF IInv
<1> QED BY <1>1, <1>2

\* A call that is still wanted goes on, to REST or to the wire, and is alone.
LEMMA ContinueStep ==
  ASSUME IInv, NEW i \in Nat, NEW step, NEW others, Continue(i, step, others),
         others \subseteq Calls, \A c \in others : ~c.current,
         stage' = "started", ~stopped, UNCHANGED <<stopped, early, idx>>, ~transport,
         ~armed', armed' \in BOOLEAN, st' # "open",
         rejected' \in BOOLEAN, rejected' => pend' \/ failed'
  PROVE  IInv'
<1>1. CASE calls' = others \cup {Call(i, RestRequest)} /\ UNCHANGED wire
  <2>1. Call(i, RestRequest) \in Calls /\ Call(i, RestRequest).current
    BY DEF Call, Calls, RestRequest
  <2>2. Types' /\ Opening'
    BY <1>1, <2>1 DEF IInv, Types, Opening, wire
  <2>3. OneAttempt'
    BY <1>1, <2>1 DEF IInv, Types, OneAttempt, Valid, wire
  <2>4. ReadySettled' /\ RefreshOwed'
    BY DEF IInv, ReadySettled, RefreshOwed
  <2> QED BY <2>2, <2>3, <2>4 DEF IInv
<1>2. CASE calls' = others /\ Dial
  BY <1>2 DEF IInv, Types, Opening, OneAttempt, ReadySettled, RefreshOwed, Valid, Dial
<1> QED BY <1>1, <1>2 DEF Continue

\* #connect, from #open or from the timer.
LEMMA ConnectStep ==
  ASSUME IInv, Connect, stage' = "started", ~stopped, UNCHANGED <<stopped, early, idx, rejected, failed>>,
         ~transport, armed' = FALSE, \A c \in calls : ~c.current
  PROVE  IInv'
<1> DEFINE step == IF Transports[idx].needsId THEN "base" ELSE "token"
           overtaken == {[c EXCEPT !.current = FALSE] : c \in calls}
<1>1. overtaken \subseteq Calls /\ \A c \in overtaken : ~c.current
  BY DEF IInv, Types, Calls
<1>2. st' # "open" /\ (pend => pend')
  BY DEF Connect
<1>3. rejected' \in BOOLEAN /\ (rejected' => pend' \/ failed')
  BY <1>2 DEF IInv, Types, Opening
<1>4. CASE cur \in {"good", "refused"}
  <2>1. Continue(idx, step, overtaken)
    BY <1>4 DEF Connect
  <2> QED BY <1>1, <1>2, <1>3, <2>1, ContinueStep DEF IInv, Types
<1>5. CASE cur \notin {"good", "refused"}
  <2>1. calls' = overtaken \cup {Call(idx, step)} /\ UNCHANGED wire
    BY <1>5 DEF Connect
  <2>2. Call(idx, step) \in Calls /\ Call(idx, step).current
    BY DEF IInv, Types, Call, Calls
  <2> QED
    BY <1>1, <1>2, <1>3, <2>1, <2>2
    DEF IInv, Types, Opening, OneAttempt, ReadySettled, RefreshOwed, Valid, wire
<1> QED BY <1>4, <1>5


-----------------------------------------------------------------------------
\* While a call is wanted nothing else is under way, and no other call is wanted.
LEMMA WantedAlone ==
  ASSUME IInv, NEW c \in calls, Valid(c)
  PROVE  /\ ~stopped /\ ~transport /\ ~armed /\ stage = "started" /\ st # "open"
         /\ \A d \in calls \ {c} : ~d.current
BY DEF IInv, Types, Opening, OneAttempt, Valid

\* While a transport or the timer is there no call is wanted.
LEMMA NoneWanted ==
  ASSUME IInv, transport \/ armed
  PROVE  ~stopped /\ stage = "started" /\ \A c \in calls : ~c.current
BY DEF IInv, Types, Opening, OneAttempt, Valid

\* A connection that was lost: nothing else is under way.
LEMMA HangupStep ==
  ASSUME IInv, Hangup
  PROVE  /\ transport' = FALSE /\ link' = "none" /\ socks' = 0 /\ ~stopped /\ stage = "started"
         /\ \A c \in calls : ~c.current
<1>1. transport' = FALSE /\ link' = "none" /\ transport /\ socks' = socks - 1
  BY DEF Hangup
<1>2. socks = 1
  BY <1>1 DEF IInv, OneAttempt
<1> QED BY <1>1, <1>2, NoneWanted

\* Answers that no wanted call waits for change the calls only.
LEMMA Unwanted ==
  ASSUME IInv, UNCHANGED <<api, st, stopped, transport, link, socks, armed, idx>>,
         calls' \subseteq calls, \A c \in calls \ calls' : ~Valid(c),
         rejected' \in BOOLEAN,
         rejected' /\ ~stopped => pend' \/ failed',
         st = "open" => RefreshOwed'
  PROVE  IInv'
<1>1. Types' /\ Opening'
  BY DEF IInv, Types, Opening, api
<1>2. OneAttempt'
  <2>1. {c \in calls' : Valid(c)'} = {c \in calls : Valid(c)}
    BY DEF Valid
  <2>2. OneAttempt
    BY DEF IInv
  <2> QED BY <2>1, <2>2 DEF OneAttempt, api
<1>3. ReadySettled' /\ RefreshOwed'
  BY DEF IInv, ReadySettled, RefreshOwed, api
<1> QED BY <1>1, <1>2, <1>3 DEF IInv

LEMMA OpenSteps ==
  ASSUME IInv, Start \/ Resume \/ Loaded \/ ReconnectDue
  PROVE  IInv'
<1>1. CASE Resume
  BY <1>1 DEF IInv, Types, Opening, OneAttempt, ReadySettled, RefreshOwed, Valid, Resume,
              policy, wire, token, timers
<1>2. CASE (Start \/ Loaded) /\ ~stopped
  <2>1. Connect /\ stage' = "started" /\ stage # "started"
    BY <1>2 DEF Start, Loaded
  <2>2. UNCHANGED <<stopped, early, idx, rejected, failed, armed>>
    BY <1>2 DEF Start, Loaded, policy, timers
  <2>3. ~transport /\ armed = FALSE /\ calls = {}
    BY <2>1 DEF IInv, Types, Opening
  <2> QED BY <1>2, <2>1, <2>2, <2>3, ConnectStep
<1>3. CASE (Start \/ Loaded) /\ stopped
  <2>1. stage' = "started" /\ early /\ stage # "started"
    BY <1>3 DEF Start, Loaded, IInv, Opening
  <2>2. UNCHANGED <<early, stopped, st, calls, pend, wire, policy, rejected, failed, timers,
                    refreshing, stray>>
    BY <1>3 DEF Start, Loaded
  <2> QED
    BY <1>3, <2>1, <2>2 DEF IInv, Types, Opening, OneAttempt, ReadySettled, RefreshOwed, Valid,
                            policy, wire, timers
<1>4. CASE ReconnectDue
  <2>1. Connect /\ armed /\ armed' = FALSE
    BY <1>4 DEF ReconnectDue
  <2>2. UNCHANGED <<stage, stopped, early, idx, rejected, failed>>
    BY <1>4 DEF ReconnectDue, api, policy
  <2>3. ~transport
    BY <2>1 DEF IInv, Types, Opening, OneAttempt
  <2>4. ~stopped /\ stage = "started" /\ \A c \in calls : ~c.current
    BY <2>1, NoneWanted
  <2> QED BY <2>1, <2>2, <2>3, <2>4, ConnectStep
<1> QED BY <1>1, <1>2, <1>3, <1>4

LEMMA RestSteps ==
  ASSUME IInv, RestAnswers \/ RestFails
  PROVE  IInv'
<1>1. ASSUME RestAnswers PROVE IInv'
  <2>1. PICK c \in calls :
          /\ calls' = calls \ {c} /\ rejected' = FALSE
          /\ stray' = (stray \/ refreshing)
          /\ IF Valid(c) THEN Dial ELSE UNCHANGED wire
          /\ UNCHANGED <<api, st, stopped, policy, timers>>
    BY <1>1 DEF RestAnswers
  <2>2. CASE Valid(c)
    <3>1. /\ ~stopped /\ ~transport /\ ~armed /\ stage = "started" /\ st # "open"
          /\ \A d \in calls' : ~d.current
      BY <2>1, <2>2, WantedAlone
    <3>2. socks' = 1 /\ transport' = TRUE
      BY <2>1, <2>2, <3>1 DEF IInv, Types, OneAttempt, Dial
    <3>3. Types' /\ Opening'
      BY <2>1, <3>1, <3>2 DEF IInv, Types, Opening, api, policy, timers
    <3>4. OneAttempt'
      BY <2>1, <3>1, <3>2 DEF OneAttempt, Valid, api, timers
    <3>5. ReadySettled' /\ RefreshOwed'
      BY <2>1, <3>1 DEF IInv, ReadySettled, RefreshOwed, api
    <3> QED BY <3>3, <3>4, <3>5 DEF IInv
  <2>3. CASE ~Valid(c)
    <3>1. st = "open" => RefreshOwed'
      BY <2>1, <2>3 DEF IInv, RefreshOwed, wire, timers
    <3> QED BY <2>1, <2>3, <3>1, Unwanted DEF wire, policy, timers
  <2> QED BY <2>2, <2>3
<1>2. ASSUME RestFails PROVE IInv'
  <2>1. PICK c \in calls, a \in Failures :
          /\ calls' = calls \ {c}
          /\ IF ~Valid(c)
             THEN UNCHANGED <<policy, st, stopped, ready, timers>>
             ELSE IF Denied(a) THEN Shut /\ UNCHANGED policy ELSE ScheduleReconnect(FALSE)
          /\ UNCHANGED <<stage, early, wire, token, refreshing, stray>>
    BY <1>2 DEF RestFails
  <2>2. rejected' \in BOOLEAN /\ (rejected' /\ ~stopped => pend' \/ failed')
    BY <2>1 DEF IInv, Types, Opening, token
  <2>3. CASE ~Valid(c)
    <3>1. st = "open" => RefreshOwed'
      BY <2>1, <2>3 DEF IInv, RefreshOwed, wire, timers
    <3> QED BY <2>1, <2>2, <2>3, <3>1, Unwanted DEF wire, policy, timers, api
  <2>4. CASE Valid(c)
    <3>1. ~stopped /\ ~transport /\ stage = "started" /\ \A d \in calls' : ~d.current
      BY <2>1, <2>4, WantedAlone
    <3>2. transport' = FALSE /\ link' = "none" /\ socks' = 0
      BY <2>1, <3>1 DEF IInv, Types, Opening, OneAttempt, wire
    <3>3. CASE Denied(a)
      BY <2>1, <2>2, <2>4, <3>1, <3>2, <3>3, ShutStep DEF policy
    <3>4. CASE ~Denied(a)
      BY <2>1, <2>2, <2>4, <3>1, <3>2, <3>4, ReconnectStep
    <3> QED BY <3>3, <3>4
  <2> QED BY <2>3, <2>4
<1> QED BY <1>1, <1>2


LEMMA AnsweredStep ==
  ASSUME IInv, ProviderAnswers
  PROVE  IInv'
<1>1. /\ rejected' = FALSE
      /\ refreshT' = (refreshT \/ (refreshing /\ ~SendsAuth))
      /\ UNCHANGED <<api, st, stopped, idx, armed, stray>>
  BY DEF ProviderAnswers, policy
<1>2. CASE \E c \in Waiting : Valid(c)
  <2>1. PICK c \in Waiting : Valid(c) /\ Continue(c.idx, c.step, calls \ Waiting)
    BY <1>2 DEF ProviderAnswers
  <2>2. c \in calls /\ c.idx \in Nat
    BY DEF Waiting, IInv, Types, Calls
  <2>3. /\ ~stopped /\ ~transport /\ ~armed /\ stage = "started" /\ st # "open"
        /\ \A d \in calls \ Waiting : ~d.current
    BY <2>1, <2>2, WantedAlone
  <2>4. calls \ Waiting \subseteq Calls /\ armed' \in BOOLEAN
    BY <1>1 DEF IInv, Types
  <2> QED BY <1>1, <2>1, <2>2, <2>3, <2>4, ContinueStep DEF api
<1>3. CASE ~ \E c \in Waiting : Valid(c)
  <2>1. /\ calls' = calls \ Waiting
        /\ authSent' = (authSent \/ SendsAuth)
        /\ UNCHANGED <<transport, socks, link, authRefused>>
    BY <1>3 DEF ProviderAnswers
  <2>2. st = "open" => RefreshOwed'
    BY <1>1, <2>1 DEF IInv, RefreshOwed
  <2> QED BY <1>1, <1>3, <2>1, <2>2, Unwanted
<1> QED BY <1>2, <1>3

LEMMA ProviderFailedStep ==
  ASSUME IInv, ProviderFails
  PROVE  IInv'
<1>1. /\ failed' = TRUE /\ rejected' \in BOOLEAN /\ calls' = calls \ Waiting
      /\ UNCHANGED <<stage, early, wire, stray>>
  BY DEF ProviderFails, IInv, Types
<1>2. CASE \E c \in Waiting : Valid(c)
  <2>1. PICK c \in Waiting : Valid(c)
    BY <1>2
  <2>2. c \in calls
    BY DEF Waiting
  <2>3. ~stopped /\ ~transport /\ stage = "started" /\ \A d \in calls' : ~d.current
    BY <1>1, <2>1, <2>2, WantedAlone
  <2>4. transport' = FALSE /\ link' = "none" /\ socks' = 0
    BY <1>1, <2>3 DEF IInv, Types, Opening, OneAttempt, wire
  <2>5. CASE Shut /\ UNCHANGED policy
    BY <1>1, <2>3, <2>4, <2>5, ShutStep DEF policy
  <2>6. CASE ScheduleReconnect(FALSE)
    BY <1>1, <2>3, <2>4, <2>6, ReconnectStep
  <2> QED BY <1>2, <2>5, <2>6 DEF ProviderFails
<1>3. CASE ~ \E c \in Waiting : Valid(c)
  <2>1. UNCHANGED <<policy, st, stopped, ready, armed>>
    BY <1>3 DEF ProviderFails
  <2>2. refreshT' = (refreshT \/ refreshing)
    BY <2>1 DEF ProviderFails
  <2>3. st = "open" => RefreshOwed'
    BY <1>1, <2>1, <2>2 DEF IInv, RefreshOwed, wire
  <2> QED BY <1>1, <1>3, <2>1, <2>3, Unwanted DEF api, policy, wire
<1> QED BY <1>2, <1>3

LEMMA CloseSteps ==
  ASSUME IInv, ClosedUnauthorized \/ ClosedFatally \/ Drops \/ Disconnect
  PROVE  IInv'
<1>1. CASE ClosedUnauthorized
  <2>1. /\ Hangup /\ rejected' = (rejected \/ used = "cur")
        /\ UNCHANGED <<stage, early, calls>>
    BY <1>1 DEF ClosedUnauthorized
  <2>2. rejected' \in BOOLEAN
    BY <2>1 DEF IInv, Types
  <2>3. CASE Shut /\ UNCHANGED <<idx, failures, attempt, pend>>
    BY <2>1, <2>2, <2>3, HangupStep, ShutStep
  <2>4. CASE ScheduleReconnect(link # "dialing") /\ Renew
    BY <2>1, <2>2, <2>4, HangupStep, ReconnectStep DEF Renew
  <2> QED BY <1>1, <2>3, <2>4 DEF ClosedUnauthorized
<1>2. CASE ClosedFatally
  BY <1>2, HangupStep, ShutStep DEF ClosedFatally, IInv, Types, policy, token
<1>3. CASE Drops
  <2>1. Hangup /\ ScheduleReconnect(link # "dialing") /\ UNCHANGED <<stage, early, calls, token>>
    BY <1>3 DEF Drops
  <2>2. rejected' \in BOOLEAN /\ (rejected' /\ ~stopped => pend' \/ failed')
    BY <2>1 DEF IInv, Types, Opening, token
  <2> QED BY <2>1, <2>2, HangupStep, ReconnectStep
<1>4. CASE Disconnect
  <2>1. /\ Shut /\ early' = (stage # "started") /\ UNCHANGED <<stage, calls, idx, rejected>>
        /\ IF transport THEN Hangup ELSE UNCHANGED wire
    BY <1>4 DEF Disconnect, policy, token
  <2>2. transport' = FALSE /\ link' = "none" /\ socks' = 0
    BY <2>1, HangupStep DEF IInv, Types, Opening, OneAttempt, wire
  <2> QED BY <2>1, <2>2, ShutStep DEF IInv, Types
<1> QED BY <1>1, <1>2, <1>3, <1>4

\* The connection opens and is welcomed, and tokens are renewed or grow old.
LEMMA LiveSteps ==
  ASSUME IInv, Welcome \/ Opens \/ StrayAnswers \/ RefreshDue \/ Ages \/ TokenRefreshed
               \/ AuthRefused \/ TokenExpired
  PROVE  IInv'
<1>1. CASE Welcome
  <2>1. st' = "open" /\ refreshT' = TRUE /\ ready' # "open"
        /\ UNCHANGED <<stage, early, stopped, idx, calls, transport, socks, armed, rejected,
                       pend, failed>>
    BY <1>1 DEF Welcome, Resolve
  <2>2. transport
    BY <1>1 DEF Welcome, Resolve, IInv, Opening
  <2> QED BY <2>1, <2>2 DEF IInv, Types, Opening, OneAttempt, ReadySettled, RefreshOwed, Valid
<1>2. CASE Opens
  BY <1>2, Aside DEF Opens, IInv, Types, Opening, RefreshOwed, policy, token, timers
<1>3. CASE StrayAnswers
  BY <1>3, Aside DEF StrayAnswers, IInv, Types, Opening, RefreshOwed, policy, token, wire
<1>4. CASE RefreshDue
  BY <1>4, Aside DEF RefreshDue, IInv, Types, Opening, RefreshOwed, policy, wire
<1>5. CASE Ages
  BY <1>5, Aside DEF Ages, IInv, Types, Opening, RefreshOwed, policy, wire, timers
<1>6. CASE TokenRefreshed
  BY <1>6, Aside DEF TokenRefreshed, IInv, Types, Opening, RefreshOwed, policy, token
<1>7. CASE AuthRefused
  BY <1>7, Aside DEF AuthRefused, IInv, Types, Opening, RefreshOwed, policy, token, timers
<1>8. CASE TokenExpired
  BY <1>8, Aside DEF TokenExpired, Renew, IInv, Types, Opening, RefreshOwed, policy, timers
<1> QED BY <1>1, <1>2, <1>3, <1>4, <1>5, <1>6, <1>7, <1>8


LEMMA StepIInv == IInv /\ [Next]_vars => IInv'
<1> SUFFICES ASSUME IInv, [Next]_vars PROVE IInv'
  OBVIOUS
<1>1. CASE UNCHANGED vars
  BY <1>1, Aside DEF vars, api, policy, wire, token, timers, IInv, Types, Opening, RefreshOwed
<1>2. CASE Next
  BY <1>2, OpenSteps, RestSteps, AnsweredStep, ProviderFailedStep, CloseSteps, LiveSteps
     DEF Next, Answers, Timers, Network
<1> QED BY <1>1, <1>2

\* A session that was closed stays closed.
LEMMA StoppedStays ==
  ASSUME IInv, Next, stopped
  PROVE  stopped'
<1>1. CASE Start \/ Resume \/ Loaded \/ ReconnectDue \/ Disconnect
  BY <1>1 DEF Start, Resume, Loaded, ReconnectDue, Disconnect
<1>2. CASE RestAnswers \/ ProviderAnswers \/ StrayAnswers \/ RefreshDue
  BY <1>2 DEF RestAnswers, ProviderAnswers, StrayAnswers, RefreshDue
<1>3. CASE RestFails \/ ProviderFails
  BY <1>3 DEF RestFails, ProviderFails, Valid
<1>4. CASE ClosedUnauthorized \/ ClosedFatally \/ Drops
  BY <1>4, HangupStep DEF ClosedUnauthorized, ClosedFatally, Drops
<1>5. CASE Opens \/ Welcome \/ Ages \/ TokenRefreshed \/ AuthRefused \/ TokenExpired
  BY <1>5 DEF Opens, Welcome, Ages, TokenRefreshed, AuthRefused, TokenExpired
<1> QED BY <1>1, <1>2, <1>3, <1>4, <1>5 DEF Next, Answers, Timers, Network

-----------------------------------------------------------------------------
\* A session that was opened and not closed has exactly one #connect call, transport
\* or reconnect timer, and a closed one has none, whatever the await of #connect, the
\* close or the token that comes late.
THEOREM ExactlyOneAttempt == Spec => []OneAttempt
<1>1. IInv => OneAttempt
  BY DEF IInv
<1> QED BY <1>1, InitIInv, StepIInv, PTL DEF Spec

\* A closed session left nobody waiting for start() or resume(), unless disconnect()
\* was called before #open.
THEOREM ReadyIsSettled == Spec => []ReadySettled
<1>1. IInv => ReadySettled
  BY DEF IInv
<1> QED BY <1>1, InitIInv, StepIInv, PTL DEF Spec

\* An open session's token is going to be renewed, or the server refused to.
THEOREM TokenIsRenewed == Spec => []RefreshOwed
<1>1. IInv => RefreshOwed
  BY DEF IInv
<1> QED BY <1>1, InitIInv, StepIInv, PTL DEF Spec

\* #connect presents a token the server closed 4401 on only while its replacement is
\* being fetched or could not be fetched.
THEOREM RejectedTokenReplaced == Spec => RejectedIsReplaced
<1>1. IInv /\ [Next]_vars => [~transport /\ transport' /\ rejected' => pend \/ failed]_vars
  <2> SUFFICES ASSUME IInv, Next, ~transport, transport', rejected' PROVE pend \/ failed
    OBVIOUS
  <2>1. CASE ClosedUnauthorized
    BY <2>1, HangupStep DEF ClosedUnauthorized
  <2>2. CASE ~ClosedUnauthorized
    <3>1. rejected' = rejected \/ rejected' = FALSE
      BY <2>2 DEF Next, Answers, Timers, Network, Start, Resume, Loaded, Disconnect,
         ProviderAnswers, ProviderFails, StrayAnswers, RestAnswers, RestFails, ReconnectDue,
         RefreshDue, Opens, Welcome, ClosedFatally, Drops, Ages, TokenRefreshed, AuthRefused,
         TokenExpired, token
    <3>2. ~stopped
      BY StepIInv, StoppedStays DEF IInv, OneAttempt, Types
    <3> QED BY <3>1, <3>2 DEF IInv, Types, Opening
  <2> QED BY <2>1, <2>2
<1> QED BY <1>1, InitIInv, StepIInv, PTL DEF Spec, RejectedIsReplaced
=============================================================================
