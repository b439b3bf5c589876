--------------------------- MODULE MinuteAverage ---------------------------
(***************************************************************************)
(* What a minute of one server is averaged to, and whether the store takes *)
(* it: domain.MetricReport.Validate, domain.MinuteAccumulator and the      *)
(* store's validateMinuteSample, as monitoring.Service joins them.  Of the *)
(* gauges, a used amount and its total (memory, or the root disk) are      *)
(* modelled: the used amount is averaged, the total is the last report's.  *)
(* Here a repository call fails only when the store refuses the sample,    *)
(* and the service runs one call at a time under its mutex; MinuteIngest   *)
(* has the calls that fail and interleave.                                 *)
(***************************************************************************)
EXTENDS Integers

CONSTANTS
    Bits,       \* width of the accumulator's integers, 64 in the program
    MaxBytes,   \* bound: the amounts an agent may report
    MaxMinute,  \* bound: the minutes reports are captured in
    MaxCount    \* bound: reports averaged in one minute

VARIABLES
    active,   \* the accumulator, count 0 without one
    samples,  \* metric_samples of the server: Missing, or the row of a minute
    answer    \* what the last report was answered

vars == <<active, samples, answer>>

Minute == 1..MaxMinute
Word == -(2^(Bits - 1)) .. 2^(Bits - 1) - 1
Wrap(n) == ((n + 2^(Bits - 1)) % 2^Bits) - 2^(Bits - 1)

(* Go's division truncates towards zero.                                   *)
Quotient(n, d) == IF n >= 0 THEN n \div d ELSE -((-n) \div d)

(* The same two conditions guard a report and a stored sample.             *)
AmountsValid(used, total) == total > 0 /\ used >= 0 /\ used <= total
Report == [minute: Minute, used: 0..MaxBytes, total: 0..MaxBytes]
Valid(report) == AmountsValid(report.used, report.total)

NewMinuteAccumulator(m) == [minute |-> m, count |-> 0, used |-> 0, total |-> 0]
Add(acc, report) ==
    [acc EXCEPT !.count = @ + 1, !.used = Wrap(@ + report.used), !.total = report.total]
Sample(acc) == [used |-> Quotient(acc.used, acc.count), total |-> acc.total]

Missing == [used |-> 0, total |-> 0]
validateMinuteSample(sample) == AmountsValid(sample.used, sample.total)

TypeOK ==
    /\ active \in [minute: 0..MaxMinute, count: 0..MaxCount, used: Word, total: 0..MaxBytes]
    /\ samples \in [Minute -> [used: Word, total: 0..MaxBytes]]
    /\ answer \in {"none", "no_content", "out_of_order", "internal_error", "invalid_report"}

Init ==
    /\ active = NewMinuteAccumulator(0)
    /\ samples = [m \in Minute |-> Missing]
    /\ answer = "none"

Exists == active.count > 0
Upsert == samples' = [samples EXCEPT ![active.minute] = Sample(active)]

Refuse(reason) == answer' = reason /\ UNCHANGED <<active, samples>>

(* The first report since the start, or one more of the active minute.     *)
Continue(report) ==
    /\ active.count < MaxCount
    /\ ~Exists \/ report.minute = active.minute
    /\ active' = Add(IF Exists THEN active ELSE NewMinuteAccumulator(report.minute), report)
    /\ answer' = "no_content" /\ UNCHANGED samples

(* A report of a later minute: flush, then begin, unless the flush fails.  *)
Rollover(report) ==
    /\ Exists /\ report.minute > active.minute
    /\ IF validateMinuteSample(Sample(active))
       THEN /\ Upsert
            /\ active' = Add(NewMinuteAccumulator(report.minute), report)
            /\ answer' = "no_content"
       ELSE Refuse("internal_error")

Ingest(report) ==
    \/ ~Valid(report) /\ Refuse("invalid_report")
    \/ /\ Valid(report)
       /\ \/ Continue(report) \/ Rollover(report)
          \/ Exists /\ report.minute < active.minute /\ Refuse("out_of_order")

Checkpoint ==
    /\ Exists /\ validateMinuteSample(Sample(active))
    /\ Upsert /\ UNCHANGED <<active, answer>>

(* The accumulator is memory of the process.                               *)
Restart == active' = NewMinuteAccumulator(0) /\ answer' = "none" /\ UNCHANGED samples

Next == (\E report \in Report : Ingest(report)) \/ Checkpoint \/ Restart
Spec == Init /\ [][Next]_vars

-----------------------------------------------------------------------------
(* A report for a newer minute flushes the previous sample and starts the  *)
(* new minute: whatever valid reports the previous one was made of, the    *)
(* store takes their average.                                              *)
NewerMinuteStarts ==
    [][\A report \in Report :
        Valid(report) /\ Exists /\ report.minute > active.minute /\ Ingest(report)
            => active'.minute = report.minute]_vars
=============================================================================
