---------------------------- MODULE ServerProcess ----------------------------
(***************************************************************************)
(* The life of the SSR process (server.ts, server-env.ts, api-proxy.ts):   *)
(* the checks before it listens, the calls it passes on to the backend,    *)
(* which may be down, answer late or break off, and the shutdown asked     *)
(* for by a signal.                                                        *)
(***************************************************************************)
EXTENDS Naturals, FiniteSets

CONSTANTS Calls \* the connections a client may open

VARIABLES
  config,   \* what the process finds: see Configurations
  phase,    \* "off", "listening", "closing" or "exited"
  exitCode, \* of the process; 2 stands for a death by signal
  signals,  \* the signals process.once has already heard
  deadline, \* a shutdown timer is running
  call      \* [kind, state] of each connection

processVars == <<config, phase, exitCode, signals, deadline, call>>

\* security-headers.json, BACKEND_ORIGIN and the API key, frontend.hostingInfo, Backup,
\* Features of the mounted file against those compiled in
Configurations ==
  [headers : {"shipped", "edited", "missing"}, origin : {"missing", "malformed", "ok"}, apiKey : BOOLEAN,
   hostingInfo : {"none", "valid", "invalid"}, backup : {"valid", "invalid"}, features : {"same", "other"}]

Closed == [kind |-> "none", state |-> "closed"]
Open(c) == call[c].state # "closed"

ProcessInit ==
  /\ config \in Configurations
  /\ phase = "off" /\ exitCode = 0 /\ signals = {} /\ deadline = FALSE
  /\ call = [c \in Calls |-> Closed]

\* assertRequiredEnv, hostingInfo, computeLegalFacts and the comparison of Features
Refused ==
  \/ config.origin = "missing" \/ ~config.apiKey
  \/ config.hostingInfo = "invalid" \/ config.backup = "invalid" \/ config.features = "other"

\* The modules are loaded first: an edited security-headers.json stops there, with the code of
\* whoever catches the error.
Boot ==
  /\ phase = "off"
  /\ IF config.headers = "edited"
     THEN phase' = "exited" /\ exitCode' \in {0, 1}
     ELSE IF Refused THEN phase' = "exited" /\ exitCode' = 1
     ELSE phase' = "listening" /\ UNCHANGED exitCode
  /\ UNCHANGED <<config, signals, deadline, call>>

\* A page is rendered and streamed; an API call or a stream of notifications waits for the backend.
\* buildProxy throws, at each call, where BACKEND_ORIGIN is no URL: a 500.
Connect(c, kind) ==
  /\ phase = "listening" /\ ~Open(c)
  /\ kind = "page" \/ config.origin = "ok"
  /\ call' = [call EXCEPT ![c] = [kind |-> kind, state |-> IF kind = "page" THEN "answering" ELSE "waiting"]]
  /\ UNCHANGED <<config, phase, exitCode, signals, deadline>>

Ends(c) == call' = [call EXCEPT ![c] = Closed] /\ UNCHANGED <<config, phase, exitCode, signals, deadline>>
Goes(c, state) == call' = [call EXCEPT ![c].state = state] /\ UNCHANGED <<config, phase, exitCode, signals, deadline>>

\* The headers of the backend
Answers(c) == call[c].state = "waiting" /\ Goes(c, "answering")
\* The whole of a page or of an answer is sent: a stream of notifications has no end.
Completes(c) == call[c].state = "answering" /\ call[c].kind # "stream" /\ Ends(c)
\* on.error after proxyTimeout without a byte, which a stream does not have: 504, or the
\* response destroyed where the headers were sent
TimesOut(c) ==
  /\ call[c].kind = "call" /\ call[c].state \in {"waiting", "answering"}
  /\ Ends(c)
\* ECONNREFUSED, ECONNRESET: 502 or 504
Fails(c) == call[c].kind # "page" /\ call[c].state = "waiting" /\ Ends(c)
\* The backend breaks an answer off: the response it was piped into stays open.
BreaksOff(c) == call[c].kind # "page" /\ call[c].state = "answering" /\ Goes(c, "broken")
\* drop, on "aborted" or "error" of the answer
Drop(c) == call[c].state = "broken" /\ Ends(c)
Leaves(c) == Open(c) /\ Ends(c)

\* shutdown, on the first SIGTERM and the first SIGINT: no new connection, and a timer of its own
Shutdown(signal) ==
  /\ phase \in {"listening", "closing"} /\ signal \notin signals
  /\ phase' = "closing" /\ deadline' = TRUE
  /\ signals' = signals \cup {signal}
  /\ UNCHANGED <<config, exitCode, call>>
\* The second of a kind finds no handler.
Killed(signal) ==
  /\ phase = "closing" /\ signal \in signals
  /\ phase' = "exited" /\ exitCode' = 2
  /\ call' = [c \in Calls |-> Closed] /\ UNCHANGED <<config, signals, deadline>>
\* server.close has called back
Drained ==
  /\ phase = "closing" /\ \A c \in Calls : ~Open(c)
  /\ phase' = "exited" /\ exitCode' = 0
  /\ UNCHANGED <<config, signals, deadline, call>>
\* A slip in which the exit is forced only where nothing is streamed.
ForcedIfIdle ==
  /\ phase = "closing" /\ deadline /\ \A c \in Calls : call[c].state # "answering"
  /\ phase' = "exited" /\ exitCode' = 1
  /\ call' = [c \in Calls |-> Closed] /\ UNCHANGED <<config, signals, deadline>>
\* Ten seconds later
Forced ==
  /\ phase = "closing" /\ deadline
  /\ phase' = "exited" /\ exitCode' = 1
  /\ call' = [c \in Calls |-> Closed] /\ UNCHANGED <<config, signals, deadline>>

ProcessNext ==
  \/ Boot
  \/ \E c \in Calls :
       \/ \E kind \in {"page", "call", "stream"} : Connect(c, kind)
       \/ Answers(c) \/ Completes(c) \/ TimesOut(c) \/ Fails(c) \/ BreaksOff(c) \/ Drop(c) \/ Leaves(c)
  \/ \E signal \in {"SIGTERM", "SIGINT"} : Shutdown(signal) \/ Killed(signal)
  \/ Drained \/ Forced

\* An answer ends or falls silent (one that trickles for ever is not modelled): timers fire, a
\* connection that went down is noticed and a page is sent; no client leaves, and no backend
\* answers or refuses, because it should.
ProcessFairness ==
  /\ WF_processVars(Boot) /\ WF_processVars(Drained) /\ WF_processVars(Forced)
  /\ \A c \in Calls :
       /\ WF_processVars(TimesOut(c))
       /\ WF_processVars(Drop(c))
       /\ WF_processVars(call[c].kind = "page" /\ Completes(c))
ProcessSpec == ProcessInit /\ [][ProcessNext]_processVars /\ ProcessFairness

-----------------------------------------------------------------------------
(* Properties *)

\* Nothing hangs (api-proxy.ts): a call gets an answer or an error whatever the backend does,
\* also half way through its answer, and a stream that lost the backend is let go of, so that
\* the client may ask again.
NothingHangs ==
  \A c \in Calls : (call[c].kind = "call" \/ call[c].state = "broken") ~> call[c].kind # "call" /\ call[c].state # "broken"
\* A process asked to stop stops, also with streams that would never end.
StopsInTime == phase = "closing" ~> phase = "exited"

\* Nothing the server holds open keeps its client or its own end waiting for ever.
ProcessEnds == NothingHangs /\ StopsInTime
=============================================================================
