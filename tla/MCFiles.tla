------------------------------ MODULE MCFiles ------------------------------
(* Instance of Files for TLC: two requests of any kind on two names.        *)
EXTENDS Files

(* The requests are interchangeable: of two that only swap their roles one  *)
(* is enough, the one whose first request has the kind listed earlier.      *)
KindOrder == <<"save", "run", "form", "stream", "create", "rename", "delete", "collect",
               "archive", "zip">>
Listed(k) == CHOOSE i \in DOMAIN KindOrder : KindOrder[i] = k

MCInit == Init /\ Listed(req["c1"].kind) <= Listed(req["c2"].kind)

MCLiveSpec == MCInit /\ [][Next]_vars /\ \A c \in Clients : WF_vars(Request(c))

=============================================================================
