------------------------------ MODULE Scheduler ------------------------------
(***************************************************************************)
(* The cron scheduler: one goroutine per registered job that sleeps to the *)
(* next minute boundary of the configured location, reads the clock again  *)
(* and runs the handler when the expression matches.                       *)
(*                                                                         *)
(* An instant is one real minute.  Wall gives the wall-clock time of an    *)
(* instant in the location; where clocks are turned back two instants have *)
(* the same wall-clock time, and time.Date, which the loop uses to find    *)
(* the boundary, gives the first or the second of them, as the location's  *)
(* offsets have it.                                                        *)
(***************************************************************************)
EXTENDS Integers, FiniteSets, FiniteSetsExt

CONSTANTS
    Job,
    Expression,  \* the cron expressions a job may be registered with
    Horizon,     \* bound: the last instant
    Wall,        \* [0..Horizon -> wall-clock time]
    MaxRuns      \* bound: runs of one job

Fields == {"minute", "hour", "dom", "month", "dow"}
Least == [minute |-> 0, hour |-> 0, dom |-> 1, month |-> 1, dow |-> 0]
Greatest == [minute |-> 59, hour |-> 23, dom |-> 31, month |-> 12, dow |-> 7]

ASSUME SchedulerConstants ==
    /\ IsFiniteSet(Job)
    /\ {Horizon, MaxRuns} \subseteq Nat
    /\ Wall \in [0..Horizon -> [Fields -> Int]]
    /\ Expression \subseteq [Fields -> SUBSET [lo : Int, hi : Int, step : Int]]

VARIABLES
    clock,
    zone,    \* which instant time.Date gives for a repeated wall-clock time
    cron,    \* cron[j]: the expression j was registered with
    loop,    \* loop[j]: what the goroutine of j is doing
    run,     \* Run: "new", "running", "returned"
    done,    \* the done channel is closed
    runs     \* history: how often the handler of j ran, and the last instant

schedulerVars == <<clock, zone, cron, loop, run, done, runs>>

(***************************************************************************)
(* Cron expressions: each field is a set of list items lo-hi/step.         *)
(***************************************************************************)
Every(f) == [lo |-> Least[f], hi |-> Greatest[f], step |-> 1]

Accepted(f, part) ==
    /\ part.step > 0
    /\ Least[f] <= part.lo
    /\ part.hi <= Greatest[f]
    /\ part.lo <= part.hi

\* The bits that the loop of parsePart sets.
Filled(part) ==
    LET from[v \in Int] == IF v > part.hi THEN {} ELSE {v} \cup from[v + part.step]
    IN from[part.lo]

Parses(e) == \A f \in Fields : \A part \in e[f] : Accepted(f, part)

Parse(e) == [f \in Fields |-> UNION {Filled(part) : part \in e[f]}]

\* Mutant: 7 is not taken for Sunday.
Match_PlainSunday(spec, t) == \A f \in Fields : t[f] \in spec[f]

Match(spec, t) ==
    LET dow == IF t.dow = 0 /\ 7 \in spec.dow THEN 7 ELSE t.dow IN
    \A f \in Fields : (IF f = "dow" THEN dow ELSE t[f]) \in spec[f]

(***************************************************************************)
(* The scheduler.                                                          *)
(***************************************************************************)
SchedulerInit ==
    /\ clock = 0
    /\ zone \in {"first", "second"}
    /\ cron \in [Job -> Expression]
    /\ loop = [j \in Job |-> [pc |-> "off", wake |-> 0]]
    /\ run = "new"
    /\ done = FALSE
    /\ runs = [j \in Job |-> [count |-> 0, last |-> -1]]

\* The context that Run gives to the loops and the handlers.
Cancelled == run # "new" /\ done

\* time.Date of the wall-clock time of instant t.
Resolve(t) ==
    LET same == {u \in 0..Horizon : Wall[u] = Wall[t]} IN
    IF zone = "first" THEN Min(same) ELSE Max(same)

Going(pc) == [pc |-> pc, wake |-> 0]

\* Mutant: sleeps to the start of the current minute.
Asleep_ThisMinute == [pc |-> "asleep", wake |-> Resolve(clock)]

\* sleepUntilNextMinute has read the clock.
Asleep == [pc |-> "asleep", wake |-> Resolve(clock) + 1]

Pass ==
    /\ clock < Horizon
    /\ clock' = clock + 1
    /\ UNCHANGED <<zone, cron, loop, run, done, runs>>

\* A job whose expression Register refused is not there.
Run ==
    /\ run = "new"
    /\ run' = "running"
    /\ loop' = [j \in Job |-> IF Parses(cron[j]) THEN Asleep ELSE Going("ended")]
    /\ UNCHANGED <<clock, zone, cron, done, runs>>

\* The timer has fired, how late ever, and the clock is read again.  With the
\* context cancelled as well, select takes either.
Look(j) ==
    /\ loop[j].pc = "asleep"
    /\ clock >= loop[j].wake
    /\ runs[j].count < MaxRuns
    /\ IF Match(Parse(cron[j]), Wall[clock])
       THEN /\ loop' = [loop EXCEPT ![j] = Going("handler")]
            /\ runs' = [runs EXCEPT ![j] = [count |-> @.count + 1, last |-> clock]]
       ELSE /\ loop' = [loop EXCEPT ![j] = Asleep]
            /\ UNCHANGED runs
    /\ UNCHANGED <<clock, zone, cron, run, done>>

\* Mutant: the loop only looks at the context if a minute remains.
LoopEnds_BeforeWake(j) ==
    /\ Cancelled
    /\ loop[j].pc = "asleep"
    /\ clock < loop[j].wake - 1
    /\ loop' = [loop EXCEPT ![j] = Going("ended")]
    /\ UNCHANGED <<clock, zone, cron, run, done, runs>>

LoopEnds(j) ==
    /\ Cancelled
    /\ loop[j].pc = "asleep"
    /\ loop' = [loop EXCEPT ![j] = Going("ended")]
    /\ UNCHANGED <<clock, zone, cron, run, done, runs>>

HandlerEnds(j) ==
    /\ loop[j].pc = "handler"
    /\ loop' = [loop EXCEPT ![j] = Asleep]
    /\ UNCHANGED <<clock, zone, cron, run, done, runs>>

Stop ==
    /\ ~done
    /\ done' = TRUE
    /\ UNCHANGED <<clock, zone, cron, loop, run, runs>>

\* Mutant: Run does not wait for the loops.
RunReturns_NoWait ==
    /\ run = "running"
    /\ done
    /\ run' = "returned"
    /\ UNCHANGED <<clock, zone, cron, loop, done, runs>>

RunReturns ==
    /\ run = "running"
    /\ done
    /\ \A j \in Job : loop[j].pc = "ended"
    /\ run' = "returned"
    /\ UNCHANGED <<clock, zone, cron, loop, done, runs>>

(***************************************************************************)
(* Properties                                                              *)
(***************************************************************************)
SchedulerTypeOK ==
    /\ clock \in 0..Horizon
    /\ zone \in {"first", "second"}
    /\ cron \in [Job -> Expression]
    /\ loop \in [Job -> [pc : {"off", "asleep", "handler", "ended"}, wake : 0..(Horizon + 1)]]
    /\ run \in {"new", "running", "returned"}
    /\ done \in BOOLEAN
    /\ runs \in [Job -> [count : 0..MaxRuns, last : -1..clock]]

\* What the expression says of a wall-clock time, without bit masks.
Allows(e, t) ==
    \A f \in Fields : \E part \in e[f] :
        \E v \in {t[f]} \cup (IF f = "dow" /\ t.dow = 0 THEN {7} ELSE {}) :
            v \in part.lo..part.hi /\ (v - part.lo) % part.step = 0

Looked(j) == loop[j].pc = "asleep" /\ loop'[j].pc # "ended" /\ loop' # loop

\* When a loop has woken and reads the clock, it runs the handler exactly if the
\* expression it was registered with allows that minute, 0 and 7 both being
\* Sunday; a refused expression is never looked at.  (Parse, Match, loop.)
RunsExactlyWhenDue ==
    [][\A j \in Job : Looked(j) =>
          /\ Parses(cron[j])
          /\ loop'[j].pc = "handler" <=> Allows(cron[j], Wall[clock])]_schedulerVars

\* A handler runs at most once per minute, except in the repeated minutes of a
\* location for which time.Date gives the first: there the boundary it sleeps
\* to is in the past, and the loop spins.  (sleepUntilNextMinute.)
OncePerMinute ==
    [][\A j \in Job : runs'[j] # runs[j] /\ runs[j].last = clock =>
          zone = "first" /\ \E u \in 0..(clock - 1) : Wall[u] = Wall[clock]]_schedulerVars

=============================================================================
