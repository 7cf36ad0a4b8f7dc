---------------------------- MODULE DamComparison ----------------------------
(***************************************************************************)
(* POST /compare/dams and /compare/cross-era, dam_comparator.go and         *)
(* era_comparator.go: one goroutine per dam key solves the dam and appends  *)
(* its item to a slice they share, the request waits for all of them and    *)
(* summarises the slice in the order of arrival; the comparison of eras     *)
(* solves two dams one after the other.                                    *)
(*                                                                         *)
(* What the solver finds is chosen once for a request: it is the same for   *)
(* the same dam, size and levels. No preset has a blanket, so the           *)
(* efficiencies are all zero and no dam is named the best. Ratios are in    *)
(* thousandths.                                                            *)
(***************************************************************************)
EXTENDS Integers, SequencesExt

CONSTANTS
  KnownDams,  \* dam keys with a preset
  Unknown,    \* a key without one
  Ancient,    \* the known dams of type ancient_stone; the others are modern
  Findings,   \* [<<dam, size>> -> [flow, pressure]] of the solver
  MostKeys,   \* bound: the most dam_keys of a request
  Huge        \* math.MaxFloat64

ASSUME ComparisonAssumption ==
  /\ Unknown \notin KnownDams /\ Ancient \subseteq KnownDams
  /\ MostKeys \in Nat /\ Huge \in Nat
  /\ Findings \subseteq [KnownDams \X KnownDams -> [flow : 0..Huge, pressure : 0..Huge]]

VARIABLES
  wanted,   \* the request: [kind, keys, scaled]
  found,    \* what the solver finds
  stage,    \* of each goroutine: "solve", "append", "write", "done"
  holder,   \* the goroutine that holds mu, or 0
  seen,     \* the slice an append has read
  items,    \* the shared slice: dams in the order of arrival
  noted,    \* items that the summary's loop has been over
  summary,  \* what it has found in them
  reply     \* the answer: [status, body]

sliceVars == <<stage, holder, seen, items>>
summaryVars == <<noted, summary>>
comparisonVars == <<wanted, found, sliceVars, summaryVars, reply>>

Keys == KnownDams \cup {Unknown}
Asks == [kind : {"dams"}, keys : BoundedSeq(Keys, MostKeys), scaled : {FALSE}]
        \cup [kind : {"eras"}, keys : [1..2 -> Keys], scaled : BOOLEAN]
Goroutines == DOMAIN wanted.keys
OwnSize(d) == found[<<d, d>>]

-----------------------------------------------------------------------------
(* A decision that is easy to get wrong, after a faulty variant.           *)

FaultyMayLock == TRUE
MayLock == holder = 0

-----------------------------------------------------------------------------
(* One turn of the loop of generateComparisonSummary. *)
Noted(s, d) ==
  LET flow     == OwnSize(d).flow
      pressure == OwnSize(d).pressure
  IN [minFlow     |-> IF flow < s.minFlow THEN flow ELSE s.minFlow,
      maxFlow     |-> IF flow > s.maxFlow THEN flow ELSE s.maxFlow,
      minPressure |-> IF pressure < s.minPressure THEN pressure ELSE s.minPressure,
      maxPressure |-> IF pressure > s.maxPressure THEN pressure ELSE s.maxPressure,
      ancient     |-> IF d \in Ancient THEN s.ancient + 1 ELSE s.ancient,
      modern      |-> IF d \in Ancient THEN s.modern ELSE s.modern + 1]

NoSummary == [minFlow |-> Huge, maxFlow |-> 0, minPressure |-> Huge, maxPressure |-> 0,
              ancient |-> 0, modern |-> 0]

Insights(s) ==
  (IF s.modern > 0 /\ s.ancient > 0 THEN {"progress"} ELSE {})
  \cup (IF s.minFlow > 0 /\ s.maxFlow > 3 * s.minFlow THEN {"flows differ"} ELSE {})

Refused == [status |-> "error"]

(* A ratio over zero is NaN or infinite, which the JSON encoder refuses: the *)
(* request is answered with no body.                                       *)
Encoded(divisors, body) ==
  IF 0 \in divisors THEN [status |-> "empty"] ELSE [status |-> "ok", body |-> body]

ComparisonInit ==
  /\ wanted \in Asks
  /\ found \in Findings
  /\ stage = [g \in Goroutines |-> "solve"]
  /\ holder = 0
  /\ seen = <<>>
  /\ items = <<>>
  /\ noted = 0
  /\ summary = NoSummary
  /\ reply = [status |-> "none"]

Unanswered(kind) == wanted.kind = kind /\ reply.status = "none"

TooFewKeys ==
  /\ Unanswered("dams")
  /\ Len(wanted.keys) < 2
  /\ reply' = Refused
  /\ UNCHANGED <<wanted, found, sliceVars, summaryVars>>

Goes(g, from, to) ==
  /\ Unanswered("dams")
  /\ Len(wanted.keys) >= 2
  /\ stage[g] = from
  /\ stage' = [stage EXCEPT ![g] = to]
  /\ UNCHANGED <<wanted, found, summaryVars, reply>>

SolveDam(g) ==
  /\ Goes(g, "solve", IF wanted.keys[g] = Unknown THEN "done" ELSE "append")
  /\ UNCHANGED <<holder, seen, items>>

(* items = append(items, *item), between mu.Lock and mu.Unlock.             *)
LockItems(g) ==
  /\ Goes(g, "append", "write")
  /\ MayLock
  /\ holder' = g
  /\ seen' = items
  /\ UNCHANGED items

AppendItem(g) ==
  /\ Goes(g, "write", "done")
  /\ items' = Append(seen, wanted.keys[g])
  /\ holder' = 0
  /\ UNCHANGED seen

(* wg.Wait, then the summary's loop over what arrived, and the answer.      *)
Collected ==
  /\ Unanswered("dams")
  /\ Len(wanted.keys) >= 2
  /\ \A g \in Goroutines : stage[g] = "done"

TooFewItems ==
  /\ Collected
  /\ Len(items) < 2
  /\ reply' = Refused
  /\ UNCHANGED <<wanted, found, sliceVars, summaryVars>>

NoteItem ==
  /\ Collected
  /\ Len(items) >= 2 /\ noted < Len(items)
  /\ noted' = noted + 1
  /\ summary' = Noted(summary, items[noted + 1])
  /\ UNCHANGED <<wanted, found, sliceVars, reply>>

AnswerDams ==
  /\ Collected
  /\ Len(items) >= 2 /\ noted = Len(items)
  /\ reply' = Encoded({summary.minFlow}, [items |-> items, summary |-> summary, insights |-> Insights(summary)])
  /\ UNCHANGED <<wanted, found, sliceVars, summaryVars>>

(* The ancient dam may be solved in the size of the modern one, and still    *)
(* reports its own geometry.                                               *)
AnswerEras ==
  /\ Unanswered("eras")
  /\ LET old == wanted.keys[1]
         new == wanted.keys[2]
         o   == found[<<old, IF wanted.scaled THEN new ELSE old>>]
         n   == OwnSize(new)
     IN reply' = IF Unknown \in {old, new} THEN Refused
                 ELSE Encoded({o.flow, o.pressure, n.flow, n.pressure},
                        [flowRatio |-> (o.flow * 1000) \div n.flow,
                         pressureRatio |-> (o.pressure * 1000) \div n.pressure,
                         flowReduction |-> ((o.flow - n.flow) * 1000) \div o.flow,
                         pressureReduction |-> ((o.pressure - n.pressure) * 1000) \div o.pressure])
  /\ UNCHANGED <<wanted, found, sliceVars, summaryVars>>

ComparisonNext ==
  \/ TooFewKeys
  \/ \E g \in Goroutines : SolveDam(g) \/ LockItems(g) \/ AppendItem(g)
  \/ TooFewItems \/ NoteItem \/ AnswerDams
  \/ AnswerEras

ComparisonSpec == ComparisonInit /\ [][ComparisonNext]_comparisonVars

-----------------------------------------------------------------------------
(* PROPERTIES                                                             *)

(* Every variable has its type; the goroutine that holds the mutex, and no  *)
(* other, is about to write the slice, over what it has read of it.         *)
ComparisonTypeOK ==
  /\ wanted \in Asks /\ found \in Findings
  /\ stage \in [Goroutines -> {"solve", "append", "write", "done"}]
  /\ holder \in {0} \cup Goroutines
  /\ {g \in Goroutines : stage[g] = "write"} = {holder} \ {0}
  /\ holder # 0 => seen = items
  /\ items \in BoundedSeq(KnownDams, MostKeys)
  /\ noted \in 0..Len(items)
  /\ reply.status \in {"none", "error", "empty", "ok"}

(* Whatever the order in which the goroutines end, the answer has an item   *)
(* for every key with a preset, a key given twice counting twice, and its   *)
(* summary is that of all these dams; it is refused only when fewer than    *)
(* two keys have a preset, and has no body only when no water seeps through *)
(* one of the dams.                                                        *)
SummaryOfAll ==
  LET valid     == {g \in Goroutines : wanted.keys[g] # Unknown}
      values(f) == {OwnSize(wanted.keys[g])[f] : g \in valid}
  IN wanted.kind = "dams" =>
     CASE reply.status = "none"  -> TRUE
       [] reply.status = "error" -> Cardinality(valid) < 2
       [] reply.status = "empty" -> 0 \in values("flow")
       [] reply.status = "ok"    ->
            LET s == reply.body.summary
            IN /\ \A d \in KnownDams : Cardinality({i \in DOMAIN reply.body.items : reply.body.items[i] = d})
                                        = Cardinality({g \in valid : wanted.keys[g] = d})
               /\ s.minFlow = Min(values("flow")) /\ s.maxFlow = Max(values("flow"))
               /\ s.minPressure = Min(values("pressure")) /\ s.maxPressure = Max(values("pressure"))
               /\ s.ancient = Cardinality({g \in valid : wanted.keys[g] \in Ancient})
               /\ s.ancient + s.modern = Cardinality(valid)

(* What the comparison of eras says in ratios and in reductions, which are   *)
(* computed apart, agrees, and a dam gains nothing on itself.               *)
ErasAgree ==
  wanted.kind = "eras" /\ reply.status = "ok" =>
    LET b == reply.body
    IN /\ b.flowRatio >= 1000 <=> b.flowReduction >= 0
       /\ b.pressureRatio >= 1000 <=> b.pressureReduction >= 0
       /\ wanted.keys[1] = wanted.keys[2] => b.flowReduction = 0 /\ b.pressureReduction = 0

(* Either comparison answers for all it was asked about.                   *)
ComparisonTells == SummaryOfAll /\ ErasAgree
=============================================================================
