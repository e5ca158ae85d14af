---------------------------- MODULE MCThreadPool ----------------------------
(***************************************************************************)
(* The pool on small instances.                                            *)
(***************************************************************************)
EXTENDS ThreadPool, TLC

MCThreads == Workers \cup Clients \cup {Manager}
MCItems == Requests \cup {Poison}

\* Workers, request threads and requests are interchangeable.
Symmetry ==
    Permutations(Workers) \cup Permutations(Clients) \cup Permutations(Requests)
=============================================================================
