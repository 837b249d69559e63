----------------------------- MODULE Collection -----------------------------
(***************************************************************************)
(* The collection jobs of run_campaign and the RateGovernor they share.    *)
(*                                                                         *)
(* A campaign starts one job per query and source.  At most Concurrency    *)
(* jobs hold the semaphore, from before GOVERNOR.acquire until the source  *)
(* has answered; a job whose request may be retried sleeps without it.     *)
(* The governor is a module-level object: it keeps its delays when one     *)
(* campaign of the process ends and the next one begins.                   *)
(*                                                                         *)
(* A delay is counted in the halvings that bring it to zero.  The code     *)
(* halves a float that starts at 5 s or more, so that number is above      *)
(* 1000; DelaySteps stands for it.                                         *)
(***************************************************************************)
EXTENDS Naturals, FiniteSets

CONSTANTS
  Jobs, Sources,
  SourceOf,        \* the source of each job
  Concurrency,     \* permits of the semaphore
  Retries,         \* retries of a job after its first attempt
  BurstThreshold,  \* penalised failures in a row that start the throttling
  DelaySteps,      \* bound: halvings that bring a penalty to zero
  Answers          \* what a request can end with, see below

AllAnswers == {"ok",         \* the collector finished
               "limited",    \* HTTP 403 or 429: retried, penalised
               "server",     \* HTTP 5xx: retried, not penalised
               "timeout",    \* HTTP 408: final at once, penalised
               "client",     \* other HTTP errors: final at once
               "transport"}  \* httpx.HTTPError, RuntimeError, ValueError

ASSUME CollectionAssumption ==
  /\ IsFiniteSet(Jobs) /\ SourceOf \in [Jobs -> Sources]
  /\ Concurrency \in Nat \ {0} /\ Retries \in Nat
  /\ BurstThreshold \in Nat \ {0} /\ DelaySteps \in Nat \ {0}
  /\ Answers \subseteq AllAnswers

Retryable == {"limited", "server"}
Penalised == {"limited", "timeout"}

VARIABLES
  jpc,        \* where each job is
  attempt,    \* its attempt number
  outcome,    \* what it returned: "none" until it is done
  delays,     \* RateGovernor._delays
  failures    \* RateGovernor._failures, counted up to BurstThreshold

vars == <<jpc, attempt, outcome, delays, failures>>

TypeOK ==
  /\ jpc \in [Jobs -> {"waiting", "acquire", "asleep", "collect",
                        "backoff", "done"}]
  /\ attempt \in [Jobs -> 0 .. Retries]
  /\ outcome \in [Jobs -> {"none", "ok", "error"}]
  /\ delays \in [Sources -> 0 .. DelaySteps]
  /\ failures \in [Sources -> 0 .. BurstThreshold]

StartJobs ==
  /\ jpc' = [j \in Jobs |-> "waiting"]
  /\ attempt' = [j \in Jobs |-> 0]
  /\ outcome' = [j \in Jobs |-> "none"]

Init ==
  /\ jpc = [j \in Jobs |-> "waiting"]
  /\ attempt = [j \in Jobs |-> 0]
  /\ outcome = [j \in Jobs |-> "none"]
  /\ delays = [s \in Sources |-> 0]
  /\ failures = [s \in Sources |-> 0]

Holders == {j \in Jobs : jpc[j] \in {"acquire", "asleep", "collect"}}

Goto(j, l) == jpc' = [jpc EXCEPT ![j] = l]

(* async with semaphore *)
Enter(j) ==
  /\ jpc[j] = "waiting" /\ Cardinality(Holders) < Concurrency
  /\ Goto(j, "acquire")
  /\ UNCHANGED <<attempt, outcome, delays, failures>>

(* Wrong forms of Acquire: no waiting at all; one delay for all sources. *)
AcquireAtOnce(j) ==
  /\ jpc[j] = "acquire"
  /\ Goto(j, "collect")
  /\ UNCHANGED <<attempt, outcome, delays, failures>>

AcquireGlobal(j) ==
  /\ jpc[j] = "acquire" /\ \A s \in Sources : delays[s] = 0
  /\ Goto(j, "collect")
  /\ UNCHANGED <<attempt, outcome, delays, failures>>

(* GOVERNOR.acquire: its loop ends only when it reads a delay of zero;
   otherwise it sleeps for the delay and reads it again. *)
Acquire(j) ==
  /\ jpc[j] = "acquire" /\ delays[SourceOf[j]] = 0
  /\ Goto(j, "collect")
  /\ UNCHANGED <<attempt, outcome, delays, failures>>

Sleep(j) ==
  /\ jpc[j] = "acquire" /\ delays[SourceOf[j]] > 0
  /\ Goto(j, "asleep")
  /\ UNCHANGED <<attempt, outcome, delays, failures>>

ReadAgain(j) ==
  /\ jpc[j] = "asleep"
  /\ Goto(j, "acquire")
  /\ UNCHANGED <<attempt, outcome, delays, failures>>

(* The delay after k penalised failures in a row is as long as the halvings
   of the penalty; a longer penalty takes no fewer of them. *)
Penalise(s) ==
  IF failures[s] + 1 >= BurstThreshold
    THEN failures' = [failures EXCEPT ![s] = BurstThreshold] /\
         delays' = [delays EXCEPT ![s] = DelaySteps]
    ELSE failures' = [failures EXCEPT ![s] = @ + 1] /\ UNCHANGED delays

(* A wrong form of Relax: one success lifts the whole penalty. *)
RelaxAtOnce(s) ==
  /\ failures' = [failures EXCEPT ![s] = 0]
  /\ delays' = [delays EXCEPT ![s] = 0]

(* Whatever is not penalised counts as a success, also an HTTP 5xx. *)
Relax(s) ==
  /\ failures' = [failures EXCEPT ![s] = 0]
  /\ delays' = [delays EXCEPT ![s] = IF @ = 0 THEN 0 ELSE @ - 1]

(* GOVERNOR.record(source, error) *)
Record(s, a) == IF a \in Penalised THEN Penalise(s) ELSE Relax(s)

Finish(j, o) == Goto(j, "done") /\ outcome' = [outcome EXCEPT ![j] = o]

Succeed(j) ==
  /\ jpc[j] = "collect" /\ "ok" \in Answers
  /\ Finish(j, "ok")
  /\ Record(SourceOf[j], "ok")
  /\ UNCHANGED attempt

(* An HTTP status error that is not retried. *)
Fail(j) ==
  /\ jpc[j] = "collect"
  /\ \E a \in Answers \ {"ok", "transport"} :
       /\ a \in Retryable => attempt[j] = Retries
       /\ Record(SourceOf[j], a)
  /\ Finish(j, "error")
  /\ UNCHANGED attempt

(* A wrong form of BackOff: the attempts are not counted against Retries. *)
BackOffAlways(j) ==
  /\ jpc[j] = "collect"
  /\ Answers \cap Retryable # {}
  /\ Goto(j, "backoff")
  /\ UNCHANGED <<attempt, outcome, delays, failures>>

(* An HTTP status error that is retried: the governor hears nothing of it. *)
BackOff(j) ==
  /\ jpc[j] = "collect" /\ attempt[j] < Retries
  /\ Answers \cap Retryable # {}
  /\ Goto(j, "backoff")
  /\ UNCHANGED <<attempt, outcome, delays, failures>>

(* A wrong form of WakeUp: the attempt is not counted. *)
WakeUpUncounted(j) ==
  /\ jpc[j] = "backoff"
  /\ Goto(j, "waiting")
  /\ UNCHANGED <<attempt, outcome, delays, failures>>

WakeUp(j) ==
  /\ jpc[j] = "backoff"
  /\ attempt' = [attempt EXCEPT ![j] = @ + 1]
  /\ Goto(j, "waiting")
  /\ UNCHANGED <<outcome, delays, failures>>

(* Any other error ends the job, and the governor hears nothing of it. *)
BreakOff(j) ==
  /\ jpc[j] = "collect" /\ "transport" \in Answers
  /\ Finish(j, "error")
  /\ UNCHANGED <<attempt, delays, failures>>

AllDone == \A j \in Jobs : jpc[j] = "done"

(* asyncio.gather returned, and the next watch cycle starts its campaign. *)
NextCampaign ==
  /\ AllDone
  /\ StartJobs
  /\ UNCHANGED <<delays, failures>>

Job(j) == \/ Enter(j) \/ Acquire(j) \/ Sleep(j) \/ ReadAgain(j)
          \/ Succeed(j) \/ Fail(j) \/ BackOff(j) \/ WakeUp(j) \/ BreakOff(j)

Next == (\E j \in Jobs : Job(j)) \/ NextCampaign

Spec == Init /\ [][Next]_vars

-----------------------------------------------------------------------------
(* Properties.                                                             *)

InFlight(s) == {j \in Jobs : SourceOf[j] = s /\ jpc[j] = "collect"}

(* A source is wedged when it is throttled and no request to it is under
   way: nobody is left who could record the success that would lift the
   delay. *)
Wedged(s) == delays[s] > 0 /\ InFlight(s) = {}

(* The governor never lets a wedged source go, in this campaign or in a
   later one of the same process: acquire waits for a delay of zero, and
   only a request that passed acquire could bring the delay down. *)
WedgedForGood == [][\A s \in Sources : Wedged(s) => Wedged(s)']_vars

(* The code's case, where more halvings than requests under way lead from
   the penalty to zero: a source that is throttled once is throttled for
   good, whatever its requests end with. *)
ManyHalvings == Concurrency < DelaySteps
ThrottledForGood == [][\A s \in Sources : delays[s] > 0 => delays'[s] > 0]_vars

(* A throttled source does not hold up the jobs of another one, as long as
   its own jobs cannot take every permit. *)
OthersEnd ==
  \A j \in Jobs : (jpc[j] # "done") ~> (jpc[j] = "done" \/ delays[SourceOf[j]] > 0)

(* Every campaign ends: gather returns. *)
CampaignEnds == []<>AllDone

(* The only thing that can keep a campaign from ending is a wedged source. *)
EndsOrWedges == []<>(AllDone \/ \E s \in Sources : Wedged(s))

-----------------------------------------------------------------------------
(* Requests time out, sleeps end, and the semaphore is handed on: every job
   that can go on does. *)
FairSpec == Spec /\ \A j \in Jobs : WF_vars(Job(j))

=============================================================================
