------------------------------- MODULE MCRepoSync -------------------------------
(* One repository named twice, with a semaphore and a channel that let both *)
(* goroutines work together and with one place, where both are at their     *)
(* limit; and one with a treev2 tarball beside an unknown name, which cuts  *)
(* off the goroutine that runs or is ignored.  The commands of a behaviour  *)
(* name the same repository.                                                *)
EXTENDS RepoSync

Req(args, force, ignore, concurrency) ==
  [args |-> args, force |-> force, ignore |-> ignore, concurrency |-> concurrency]

MCRequests ==
  {Req(<<"main", "main">>, TRUE, FALSE, 2), Req(<<"main", "main">>, FALSE, FALSE, 2),
   Req(<<"main", "main">>, FALSE, FALSE, 1),
   Req(<<"v2", "typo">>, FALSE, FALSE, 2), Req(<<"typo", "v2">>, FALSE, TRUE, 1)}

\* Bound.
Named(r) == {r.args[i] : i \in DOMAIN r.args} \ {Unknown}
SameRepository == Named(req') = Named(req)

MCPlainRequests == {Req(<<"main">>, FALSE, FALSE, 1)}
================================================================================
