----------------------------- MODULE MCRequests -----------------------------
(***************************************************************************)
(* The paths of the server for TLC, each with the factories that match it.  *)
(* Paths that begin with two underscores are not valid for                  *)
(* RestDbRequestHandlerFactory; the empty set is for a path nobody takes.   *)
(***************************************************************************)
EXTENDS Requests

ServerPaths ==
    {{"rest"}, {"users"}, {"endpoints"}, {"rest", "authenticate"}, {"rest", "xkcd"},
     {"rest", "giphy"}, {"rest", "blacklist"}, {}}
=============================================================================
