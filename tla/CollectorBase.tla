---------------------------- MODULE CollectorBase -----------------------------
(***************************************************************************)
(* What the collectors share (collectors/base.py): what a request can come *)
(* to, what a run can come to, and the bands of a company's age            *)
(* (maturity.py).                                                          *)
(*                                                                         *)
(* A reply is what a query came to after its retries: `ok' with a body, or *)
(* one of Failures without one.  A finding is a pair <<signal, band>>.     *)
(***************************************************************************)
EXTENDS Integers, Sequences, FiniteSets

CONSTANT None

\* No answer at all, 429, 404, 502 to 504, any other status, a body that does not parse, and a TLS
\* alert or a certificate that does not verify.
Failures == {"none", "limited", "missing", "failing", "denied", "garbled", "refused"}

Ok(body) == [kind |-> "ok", body |-> body]
Failure(kind) == [kind |-> kind, body |-> None]
Answered(r) == r.kind = "ok"

\* _RETRY_STATUS and httpx.HTTPError: what _get_with_retry tries again.
Transient == {"none", "limited", "failing"}

\* Collector.result.  `clean` marks a receipt: searched, and nothing was there.
Result(status, findings) == [status |-> status, findings |-> findings, clean |-> FALSE]
Receipt(signal, band) == [status |-> "ok", findings |-> {<<signal, band>>}, clean |-> TRUE]
Empty == Result("empty", {})
Error == Result("error", {})
Timeout == Result("timeout", {})

\* The usual reading of one reply: its body's result, or what its failure comes to.
Read(r, lenient, result) == CASE Answered(r) -> result
                              [] r.kind \in lenient -> Empty
                              [] OTHER -> Error

\* maturity_band over years_between, in days of a 365.25-day year.
MaturityBand(days) == LET Years(n) == 100 * days >= n * 36525
                      IN CASE Years(10) -> "mature_gt_10"
                           [] Years(5) /\ ~Years(10) -> "established_5_10"
                           [] Years(2) /\ ~Years(5) -> "young_2_5"
                           [] Years(1) /\ ~Years(2) -> "startup_lt_2"
                           [] OTHER -> "new_lt_1"

\* The finding of a date the register knows.
Maturity(days) == IF days = None THEN {} ELSE {<<"entity_maturity", MaturityBand(days)>>}
===============================================================================
