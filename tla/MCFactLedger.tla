--------------------------- MODULE MCFactLedger ---------------------------
(* Requests and answers for model checking FactLedger.                     *)
EXTENDS FactLedger

Full == [route |-> "proxy", goModOnly |-> FALSE, force |-> FALSE,
         skipVCS |-> FALSE, goSum |-> FALSE, allow |-> FALSE]

(* Overlapping processes: routine, go.mod-only, anchored and forced fetches. *)
OverlappingRequests ==
    {Full, [Full EXCEPT !.goModOnly = TRUE],
     [Full EXCEPT !.force = TRUE, !.skipVCS = TRUE, !.goSum = TRUE, !.allow = TRUE]}

(* Chains of measurements: legs performed, skipped, copied and copied on.  *)
ChainRequests ==
    {[Full EXCEPT !.force = TRUE], [Full EXCEPT !.force = TRUE, !.skipVCS = TRUE],
     [Full EXCEPT !.goModOnly = TRUE],
     [Full EXCEPT !.route = "modcache", !.force = TRUE, !.goSum = TRUE, !.allow = TRUE],
     [Full EXCEPT !.route = "private", !.goSum = TRUE]}

SkippingRequests == {Full, [Full EXCEPT !.skipVCS = TRUE]}

(* Every answer, and one of each kind that decides anything.               *)
AllAnswers == AnswerType
KeyAnswers == {e \in AnswerType : e.contentOK /\ <<e.sumdb, e.vcs>> \in
    {<<"answered", "confirmed">>, <<"answered", "unavailable">>,
     <<"none", "unconfirmed">>, <<"failed", "confirmed">>}}
====
