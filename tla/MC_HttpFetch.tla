---------------------------- MODULE MC_HttpFetch ----------------------------
(* Instances of HttpFetch for TLC: the answers each run needs.             *)
EXTENDS HttpFetch

Answer(sizes, framed, redirect, fins) ==
  [size : sizes, framed : framed, redirect : redirect, fin : fins]

(* A page whose length is announced, one that ends with the connection and *)
(* is longer than what is kept, and a redirect.                            *)
Pages ==
  Answer({2}, {TRUE}, {FALSE}, {"apart"})
    \cup Answer({3}, {FALSE}, {FALSE}, {"apart"})
    \cup Answer({1}, {TRUE}, {TRUE}, {"last"})

Redirects == Answer({1}, {TRUE}, {TRUE}, {"last"})
=============================================================================
