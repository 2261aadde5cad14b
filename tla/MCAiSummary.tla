----------------------------- MODULE MCAiSummary -----------------------------
(* Messages and requests for model checking AiSummary.                     *)
EXTENDS AiSummary

TestMessages == { [words |-> {"fatal", "error"}, length |-> 4],
                  [words |-> {"warn"}, length |-> 2] }

TestRequests ==
    { [kind |-> "all", hours |-> h, limit |-> l] :
        h \in {0, 2}, l \in {-1, 0, 4} }
    \union { [kind |-> "container", name |-> n, hours |-> 2, limit |-> 0] :
               n \in {"", "web"} }
    \union { [kind |-> "search", word |-> w, name |-> n, times |-> t,
               from |-> r[1], to |-> r[2], limit |-> l] :
               w \in {"", "warn"}, n \in {"web"}, t \in {TRUE},
               r \in {<<0, 2>>, <<1, 2>>}, l \in {0, 2} }
    \union { [kind |-> "search", word |-> "warn", name |-> "", times |-> t,
               from |-> 0, to |-> 1, limit |-> 2] : t \in BOOLEAN }
=============================================================================
