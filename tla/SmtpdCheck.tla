----------------------------- MODULE SmtpdCheck -----------------------------
(***************************************************************************)
(* The access restrictions of smtpd(8), src/src/smtpd/smtpd_check.c: how a *)
(* list of restrictions is evaluated when some of them cannot be decided   *)
(* because of a temporary error.                                           *)
(*                                                                         *)
(* A restriction is a record whose field k says how it turns out:          *)
(*   "ok", "dunno"   permits, or has no opinion;                           *)
(*   "rej5", "rej4"  rejects with a permanent or a temporary code;         *)
(*   "err"           a table or configuration error, always 451;           *)
(*   "maybe_ok"      a permit_* check met a temporary error;               *)
(*   "maybe_rej"     a reject_* check met a temporary error;               *)
(*   "warn"          the prefix warn_if_reject;                            *)
(*   "discard"       an access table says DISCARD;                         *)
(*   "class"         a restriction class, with its list in field list.     *)
(*                                                                         *)
(* The evaluation state is a record                                        *)
(*   permit, reject  state->defer_if_permit.active, defer_if_reject.active *)
(*   warn            state->warn_if_reject, the level that asked for it    *)
(*   discard         state->discard                                        *)
(*   sender          TRUE where DISCARD can be delegated to cleanup(8)     *)
(*   st              the status: "dunno", "ok", "4" or "5"                 *)
(***************************************************************************)
EXTENDS Naturals, Sequences, FiniteSets

Rejects == {"4", "5"}

\* SMTPD_CHECK_RESET and the restoring of defer_if_permit before a list.
CheckReset(permit, discard, sender) ==
  [permit |-> permit, reject |-> FALSE, warn |-> 0, discard |-> discard,
   sender |-> sender, st |-> "dunno"]

\* smtpd_check_reject: warn_if_reject turns a policy reject into a warning;
\* a permanent reject becomes the earlier temporary error if a permit was in
\* doubt.
Reject(c, code, hard) ==
  IF c.warn # 0 /\ ~hard THEN [c EXCEPT !.st = "dunno"]
  ELSE IF code = "5" /\ c.reject
       THEN [c EXCEPT !.warn = 0, !.reject = FALSE, !.st = "4"]
       ELSE [c EXCEPT !.st = code]

\* A restriction other than a class or warn_if_reject: check_table_result,
\* smtpd_acl_permit, DEFER_IF_PERMIT, DEFER_IF_REJECT, reject_dict_retry.
Restriction(c, k) ==
  CASE k = "ok"        -> [c EXCEPT !.st = "ok"]
    [] k = "dunno"     -> c
    [] k = "rej5"      -> Reject(c, "5", FALSE)
    [] k = "rej4"      -> Reject(c, "4", FALSE)
    [] k = "err"       -> Reject(c, "4", TRUE)
    [] k = "maybe_ok"  -> [c EXCEPT !.reject = TRUE]
    [] k = "maybe_rej" -> IF c.warn = 0 THEN [c EXCEPT !.permit = TRUE]
                                        ELSE Reject(c, "4", FALSE)
    [] k = "discard"   -> IF c.sender THEN [c EXCEPT !.discard = TRUE, !.st = "ok"]
                                      ELSE c

Unwarn(c, level) == IF c.warn >= level THEN [c EXCEPT !.warn = 0] ELSE c

\* generic_checks at recursion level d: what is left of a list.
RECURSIVE Evaluate(_, _, _)
Evaluate(c, list, d) ==
  IF list = <<>> \/ c.discard THEN Unwarn(c, d - 1)
  ELSE LET r == Head(list)
           n == Unwarn(IF r.k = "class" THEN Evaluate(c, r.list, d + 1)
                                        ELSE Restriction(c, r.k), d)
       IN IF r.k = "warn"
          THEN Evaluate([c EXCEPT !.warn = IF @ = 0 THEN d ELSE @], Tail(list), d)
          ELSE IF n.st # "dunno" \/ (n.permit /\ n.reject) THEN Unwarn(n, d - 1)
          ELSE Evaluate(n, Tail(list), d)

GenericChecks(c, list) == Evaluate([c EXCEPT !.st = "dunno"], list, 1)

\* The last step of smtpd_check_rcpt, _data, _eod and _etrn: a temporary error
\* that may have prevented a reject turns permission into deferral.
Deferral(c) == IF c.st \notin Rejects /\ c.permit THEN Reject(c, "4", FALSE) ELSE c

-----------------------------------------------------------------------------
(***************************************************************************)
(* The reference: what a list says once every temporary error is resolved. *)
(* A check in doubt may turn out either way; then the first restriction    *)
(* with an opinion decides, and a reject under warn_if_reject has none.    *)
(***************************************************************************)

\* A list without its classes and prefixes; w says whether a reject only warns.
RECURSIVE Flatten(_, _, _)
Flatten(list, outer, next) ==
  IF list = <<>> THEN <<>>
  ELSE LET r == Head(list)
       IN CASE r.k = "warn"  -> Flatten(Tail(list), outer, TRUE)
            [] r.k = "class" -> Flatten(r.list, outer \/ next, FALSE)
                                  \o Flatten(Tail(list), outer, FALSE)
            [] OTHER -> <<[k |-> r.k, w |-> outer \/ next]>>
                          \o Flatten(Tail(list), outer, FALSE)

Resolved(k, sender) == CASE k = "maybe_ok"  -> {"ok", "dunno"}
                         [] k = "maybe_rej" -> {"rej5", "dunno"}
                         [] k = "discard" /\ ~sender -> {"dunno"}
                         [] OTHER -> {k}

Opinion(k, w) == k \in {"ok", "discard", "err"} \/ (k \in {"rej4", "rej5"} /\ ~w)

\* The outcomes, accept or reject, over all resolutions of list.
Outcomes(list, sender) ==
  LET f == Flatten(list, FALSE, FALSE)
      May(i) == Resolved(f[i].k, sender)
      Ways == {g \in [DOMAIN f -> UNION {May(i) : i \in DOMAIN f}] :
                 \A i \in DOMAIN f : g[i] \in May(i)}
      First(g) == {i \in DOMAIN f : /\ Opinion(g[i], f[i].w)
                                    /\ \A j \in 1..(i - 1) : ~Opinion(g[j], f[j].w)}
  IN {IF \E i \in First(g) : g[i] \in {"rej4", "rej5", "err"} THEN "reject" ELSE "accept"
        : g \in Ways}
=============================================================================
