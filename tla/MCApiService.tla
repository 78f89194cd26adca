---------------------------- MODULE MCApiService ----------------------------
(***************************************************************************)
(* ApiService on a few requests: two users of one limited path, a path of  *)
(* the administrators, an exempt one; a window of three seconds.           *)
(***************************************************************************)
EXTENDS ApiService

Kind(path, key, large) == [path |-> path, key |-> key, large |-> large]
User(path) == Kind(path, "user-key", FALSE)
AnyKind == {User("predict"), User("fit"), Kind("recommendation", "user-key", TRUE),
            User("recommendation"), User("admin"), Kind("admin", "admin-key", FALSE),
            Kind("predict", "unknown", FALSE), Kind("ready", "unknown", FALSE)}
Either == {User("predict"), User("fit")}
MCKinds == <<AnyKind, Either, Either>>
MCLimits == [path \in {"predict", "fit", "recommendation", "admin", "ready"} |->
               IF path = "admin" THEN 0 ELSE 2]
MCRequests == 1..3
=============================================================================
