---------------------------- MODULE MCBusinesses ----------------------------
(* An instance of Businesses for TLC.                                      *)
EXTENDS Businesses

(* Every path of the service and one it does not know, with every method   *)
(* the router has a name for and one it has not.                           *)
MCMethods == {"GET", "POST", "PUT", "DELETE", "PATCH", "HEAD", "QUERY"}
MCLines == ({x[2] : x \in ToSet(Registrations)} \union {"/"}) \X (MCMethods \union {"OPTIONS"})

-----------------------------------------------------------------------------
(* The routing table against its definition, over all short sequences of   *)
(* registrations: a request goes to the callback that was registered last  *)
(* for its path and method.                                                *)
RegisterAll(regs) ==
  FoldLeft(LAMBDA t, x : IF MayRegister(t, x[2]) THEN Register(t, x[1], x[2], x[3]) ELSE t,
           NoRoutes, regs)
Meant(regs, path, method) ==
  LET same == SelectSeq(regs, LAMBDA x : x[2] = path /\ x[3] = method)
  IN IF \A x \in ToSet(regs) : x[2] # path THEN "not found"
     ELSE IF method \notin Methods THEN "no answer"
     ELSE IF same = <<>> THEN "not allowed"
     ELSE Last(same)[1]
ASSUME RoutesAsRegistered ==
  \A regs \in SeqOf({"f", "g"} \X {"/p", "/q"} \X {"GET", "PUT"}, 3) :
    LET t == RegisterAll(regs) IN
      /\ RoutesSound(t)
      /\ \A path \in {"/p", "/q", "/r"}, method \in {"GET", "PUT", "OPTIONS"} :
           /\ Route(t, path, method, FALSE) = Meant(regs, path, method)
           /\ Route(RegisterMiddleware(t), path, method, TRUE) =
                IF Meant(regs, path, method) \in {"f", "g"} THEN "aborted"
                ELSE Meant(regs, path, method)

(* main has room for all its paths.                                        *)
ASSUME RoutesFit == ~ Full(Routes) /\ RoutesSound(Routes)
=============================================================================
