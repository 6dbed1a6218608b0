----------------------------- MODULE Simulator ------------------------------
(***************************************************************************)
(* cmd/simulator: fetches the partners from the gateway, then posts an     *)
(* order at every tick unless it is paused.  Operators pause and resume it *)
(* through the gateway, which passes their requests on.  What the gateway  *)
(* makes of an order depends on what validation and Postgres accept.       *)
(***************************************************************************)
EXTENDS Templates

CONSTANTS
  N,            \* active trading partners
  Preferred,    \* the format of each, from 1 to N
  MaxAttempts,  \* to fetch the partners (10 in the code)
  Operators,    \* bound: requests to POST /simulator/control
  Wants         \* what each of them asks: "pause" or "resume"

ASSUME SimulatorAssumption ==
  /\ N \in Nat
  /\ Preferred \in [1..N -> Formats]
  /\ MaxAttempts \in Nat \ {0}
  /\ Wants \in [Operators -> {"pause", "resume"}]

VARIABLES
  phase,      \* the process: "fetching", "running", "exited", "stopped"
  attempts,   \* to fetch the partners, so far
  loop,       \* the loop of main: "select", "ticked", "posted", "hung"
  signal,     \* a SIGTERM waits in sigChan
  paused,     \* the flag
  letter,     \* the order posted last
  control,    \* the handler of an operator's request, and what it was told
  ordered,    \* history: the last action stored
  late,       \* history: orders begun since that was a pause (2 for more)
  restarted,  \* history: the process has restarted since
  misled      \* history: requests whose action another one undid before they
              \* were answered

process == <<phase, attempts, loop, signal>>
operators == <<control, ordered, restarted, misled>>
simulatorVars == <<process, paused, letter, operators, late>>

NoLetter == [answer |-> "none"]

SimulatorInit ==
  /\ phase = "fetching"
  /\ attempts = 0
  /\ loop = "select"
  /\ signal = FALSE
  /\ paused = FALSE
  /\ letter = NoLetter
  /\ control = [o \in Operators |-> [at |-> "new", told |-> "nothing"]]
  /\ ordered = "resume"
  /\ late = 0
  /\ restarted = FALSE
  /\ misled = {}

-----------------------------------------------------------------------------
(* Start-up: the gateway may be away, or know too few partners.            *)
Fetch ==
  /\ phase = "fetching"
  /\ attempts < MaxAttempts
  /\ \/ N >= 2 /\ phase' = "running" /\ UNCHANGED attempts
     \/ attempts' = attempts + 1 /\ UNCHANGED phase
  /\ UNCHANGED <<loop, signal, paused, letter, operators, late>>

GiveUp ==
  /\ phase = "fetching"
  /\ attempts = MaxAttempts
  /\ phase' = "exited"
  /\ UNCHANGED <<attempts, loop, signal, paused, letter, operators, late>>

(* What others will say of the orders of a format with an error: does      *)
(* validation accept one, can it be inserted (Postgres keeps null bytes    *)
(* out of a TEXT), can the engine read it?                                 *)
Storable(f, w) == IF f = "xml" THEN Len(w) = 1 ELSE "NUL" \notin ToSet(w)

Drafts ==
  UNION {{[format |-> f, errorType |-> e, valid |-> Valid(f, w),
           storable |-> Storable(f, w), readable |-> Decodable(f, w)] :
            w \in generateContent(f, e)} : f \in Formats, e \in ErrorTypes}

(* The flag is read once, before the order is made up.                     *)
Running == phase = "running"

Tick_Unchecked ==
  /\ Running /\ loop = "select"
  /\ loop' = "ticked"
  /\ UNCHANGED <<phase, attempts, signal, paused, letter, operators, late>>

Tick ==
  /\ Running /\ loop = "select"
  /\ ~paused
  /\ loop' = "ticked"
  /\ UNCHANGED <<phase, attempts, signal, paused, letter, operators, late>>

(* rand.Intn(n - 1) draws from one partner fewer; from the sender's index  *)
(* on, the next one is meant.                                              *)
Receiver_Drawn(sender, draw) == draw

Receiver(sender, draw) == IF draw >= sender THEN draw + 1 ELSE draw

Post ==
  /\ Running /\ loop = "ticked"
  /\ loop' = "posted"
  /\ \E sender \in 1..N, draw \in 1..(N - 1), order \in Drafts :
       /\ order.format = Preferred[sender]
       /\ letter' = [sender |-> sender, receiver |-> Receiver(sender, draw),
                     order |-> order, answer |-> "awaited"]
  /\ late' = IF ordered = "pause" /\ late < 2 THEN late + 1 ELSE late
  /\ UNCHANGED <<phase, attempts, signal, paused, operators>>

(* POST /messages: 400 for what validation refuses, 500 when the insert    *)
(* fails.                                                                  *)
GatewayAnswers ==
  /\ letter.answer = "awaited"
  /\ \E answer \in {"created", "refused", "failed"} :
       /\ answer = "refused" <=> ~letter.order.valid
       /\ answer = "created" => letter.order.storable
       /\ letter' = [letter EXCEPT !.answer = answer]
  /\ UNCHANGED <<process, paused, operators, late>>

(* Whatever the answer, or without one if the gateway cannot be reached,   *)
(* the loop goes on.                                                       *)
Posted ==
  /\ Running /\ loop = "posted"
  /\ loop' = "select"
  /\ UNCHANGED <<phase, attempts, signal, paused, letter, operators, late>>

(* http.Post has no timeout.                                               *)
Hang ==
  /\ Running /\ loop = "posted"
  /\ letter.answer = "awaited"
  /\ loop' = "hung"
  /\ UNCHANGED <<phase, attempts, signal, paused, letter, operators, late>>

(* While the partners are fetched nobody has asked for signals yet: they   *)
(* end the process.                                                        *)
Signal ==
  /\ ~signal
  /\ phase \in {"fetching", "running"}
  /\ signal' = TRUE
  /\ phase' = IF Running THEN phase ELSE "stopped"
  /\ UNCHANGED <<attempts, loop, paused, letter, operators, late>>

Shutdown_Break ==
  /\ Running /\ loop = "select" /\ signal
  /\ signal' = FALSE
  /\ UNCHANGED <<phase, attempts, loop, paused, letter, operators, late>>

Shutdown ==
  /\ Running /\ loop = "select" /\ signal
  /\ phase' = "stopped"
  /\ UNCHANGED <<attempts, loop, signal, paused, letter, operators, late>>

Die ==
  /\ phase \in {"fetching", "running"}
  /\ phase' = IF signal THEN "stopped" ELSE "exited"
  /\ UNCHANGED <<attempts, loop, signal, paused, letter, operators, late>>

(* docker restarts what exits.  The flag lives in the process, and so do   *)
(* the handlers of POST /control: who waited for one gets no answer.       *)
Restart ==
  /\ phase = "exited"
  /\ phase' = "fetching"
  /\ attempts' = 0
  /\ loop' = "select"
  /\ paused' = FALSE
  /\ restarted' = (restarted \/ ordered = "pause")
  /\ control' = [o \in Operators |-> IF control[o].at = "stored"
                                     THEN [at |-> "done", told |-> "unreachable"]
                                     ELSE control[o]]
  /\ UNCHANGED <<signal, letter, ordered, late, misled>>

-----------------------------------------------------------------------------
(* POST /control, which is served from the start: the flag is stored, and  *)
(* read again for the answer.                                              *)
Store(o) ==
  /\ phase \in {"fetching", "running"}
  /\ control[o].at = "new"
  /\ control' = [control EXCEPT ![o].at = "stored"]
  /\ paused' = (Wants[o] = "pause")
  /\ ordered' = Wants[o]
  /\ IF paused' /\ paused THEN UNCHANGED <<late, restarted>>
                          ELSE late' = 0 /\ restarted' = FALSE
  /\ misled' = misled \cup {q \in Operators : control[q].at = "stored" /\ Wants[q] # Wants[o]}
  /\ UNCHANGED <<process, letter>>

Tell(o, told) ==
  /\ control' = [control EXCEPT ![o] = [at |-> "done", told |-> told]]
  /\ UNCHANGED <<process, paused, letter, ordered, late, restarted, misled>>

Answer_Swapped(o) ==
  /\ phase \in {"fetching", "running"}
  /\ control[o].at = "stored"
  /\ Tell(o, IF paused THEN "resume" ELSE "pause")

Answer(o) ==
  /\ phase \in {"fetching", "running"}
  /\ control[o].at = "stored"
  /\ Tell(o, IF paused THEN "pause" ELSE "resume")

(* 502: the gateway's proxy could not connect, or got no answer.           *)
Unreachable(o) ==
  /\ control[o].at # "done"
  /\ phase \in {"exited", "stopped"}
  /\ Tell(o, "unreachable")

Loop == Tick \/ Post \/ Posted

SimulatorNext ==
  \/ Fetch \/ GiveUp \/ Loop \/ GatewayAnswers \/ Hang
  \/ Signal \/ Shutdown \/ Die \/ Restart
  \/ \E o \in Operators : Store(o) \/ Answer(o) \/ Unreachable(o)

SimulatorSpec == SimulatorInit /\ [][SimulatorNext]_simulatorVars

(* Go runs the loop, which waits for the gateway's answer or an error; and *)
(* select chooses at random among what is ready, so a signal that stays    *)
(* ready is taken in the end although ticks keep coming.                   *)
SimulatorFairSpec ==
  /\ SimulatorSpec
  /\ WF_simulatorVars(Loop)
  /\ SF_simulatorVars(Shutdown)

-----------------------------------------------------------------------------
(* Every variable has its type.  Orders go from one partner to another.    *)
SimulatorTypeOK ==
  /\ phase \in {"fetching", "running", "exited", "stopped"}
  /\ attempts \in 0..MaxAttempts
  /\ loop \in {"select", "ticked", "posted", "hung"}
  /\ signal \in BOOLEAN
  /\ paused \in BOOLEAN
  /\ letter # NoLetter =>
       /\ letter.sender \in 1..N /\ letter.receiver \in 1..N \ {letter.sender}
       /\ letter.order.format = Preferred[letter.sender]
       /\ letter.answer \in {"awaited", "created", "refused", "failed"}
  /\ control \in [Operators -> [at : {"new", "stored", "done"},
                                told : {"nothing", "pause", "resume", "unreachable"}]]
  /\ ordered \in {"pause", "resume"}
  /\ late \in 0..2
  /\ restarted \in BOOLEAN
  /\ misled \in SUBSET Operators

(* PauseTakesHold: after a pause at most one more order is posted until it *)
(* is resumed, the one whose tick had passed the check, unless the process *)
(* restarts and forgets (main.go:219-225, 282-284).                        *)
PauseTakesHold == ordered = "pause" /\ late > 1 => restarted

(* ToldWhatWasAsked: an operator is told the opposite of what was asked    *)
(* only when another request came before the answer: the flag is stored    *)
(* and read again (main.go:219-232).                                       *)
ToldWhatWasAsked == \A o \in Operators :
  control[o].told \in {"pause", "resume"} /\ control[o].told # Wants[o] => o \in misled

(* CorruptionKeptOut: no order with an overwritten byte is ever stored, so *)
(* none of them fails within the platform (main.go:119-127).               *)
CorruptionKeptOut ==
  letter # NoLetter /\ letter.order.errorType = "malformed" => letter.answer # "created"

(* OnlyXmlFails: whether a stored order can be transformed depends on its  *)
(* format alone.  Words for numbers are read as 0 (main.go:131-133 wants   *)
(* them to be a failure), and no order in XML can be read (main.go:84-97). *)
OnlyXmlFails ==
  letter # NoLetter /\ letter.answer = "created" =>
    (letter.order.readable <=> letter.order.format # "xml")

(* SignalHeeded: a signal ends the simulator, unless it waits for an       *)
(* answer of the gateway that never comes (main.go:275-283, 320).          *)
SignalHeeded == signal ~> phase = "stopped" \/ loop = "hung"
=============================================================================
