---------------------------- MODULE CommitStatus ----------------------------
(***************************************************************************)
(* The join of the answers to several calls (struct CommitStatus and its   *)
(* uses; the collector of asyncGetLedgerConfig works the same way).  The   *)
(* handler of an answer first counts it, in an atomic counter, and then    *)
(* compares the sum of the counters with the total and, if all have come,  *)
(* runs the callback: other handlers may run between the two.  A call is   *)
(* answered once.                                                          *)
(***************************************************************************)
EXTENDS Naturals, FiniteSets

\* The counters are kept as the sets of participants that were counted.
NewJoin(kind, total, asked) ==
    [kind |-> kind, total |-> total, asked |-> asked, success |-> {}, failed |-> {},
     checked |-> {}, delivered |-> {}, overlap |-> FALSE]

NotBegun == NewJoin("NONE", 0, {})

Counted(join) == join.success \cup join.failed
Waiting(join) == join.asked \ Counted(join)      \* calls without an answer
Checking(join) == Counted(join) \ join.checked   \* handlers between count and check

\* A handler counts its answer.  overlap is a history: two handlers were
\* between count and check at one time.
Count(join, p, ok) ==
    [join EXCEPT !.success = IF ok THEN @ \cup {p} ELSE @,
                 !.failed = IF ok THEN @ ELSE @ \cup {p},
                 !.overlap = @ \/ Checking(join) # {}]

\* A handler that counts and does not check.
CountOnly(join, p, ok) ==
    [join EXCEPT !.success = IF ok THEN @ \cup {p} ELSE @,
                 !.failed = IF ok THEN @ ELSE @ \cup {p},
                 !.checked = @ \cup {p}]

\* Mutant: the last answer is not waited for.
CompleteEarly(join) == Cardinality(join.success) + Cardinality(join.failed) + 1 >= join.total

\* Mutant: "<=" for "<" in the early return.
CompleteLate(join) == Cardinality(join.success) + Cardinality(join.failed) > join.total

Complete(join) == Cardinality(join.success) + Cardinality(join.failed) >= join.total

\* checkAndCommit: the callback gets an error if an answer was one.
Check(join, p) ==
    [join EXCEPT !.checked = @ \cup {p},
                 !.delivered = IF Complete(join)
                               THEN @ \cup {[by |-> p, error |-> join.failed # {}]}
                               ELSE @]

\* Every call was counted in the total: no executor registered between the
\* computation of the total and the calls.
Exact(join) == join.total = Cardinality(join.asked)

-----------------------------------------------------------------------------
(* What a join promises its caller.                                        *)

\* The callback runs only when every participant that was called has
\* answered, and says that all succeeded exactly if they did.
DeliversAll(join) ==
    join.delivered # {} =>
       /\ Waiting(join) = {}
       /\ \A d \in join.delivered : d.error <=> join.failed # {}

\* The callback runs twice only if two handlers overlapped.
DeliversOnce(join) == ~join.overlap => Cardinality(join.delivered) <= 1

\* The last of the handlers that check delivers: no order of the counts and
\* checks leaves the caller without an answer.
Delivers(join, checkers) ==
    join.asked \cap checkers # {} /\ Waiting(join) = {} /\ Checking(join) = {} =>
       join.delivered # {}
=============================================================================
