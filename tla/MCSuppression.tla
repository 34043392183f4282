--------------------------- MODULE MCSuppression ---------------------------
(* Two spellings of one kind, two names and one reason. *)
EXTENDS Suppression

MCKinds   == {"Pod", "pod", "Service"}
MCNames   == {"web", "db"}
MCReasons == {"not-ready"}
MCLower   == [x \in {"Pod", "pod", "Service", "service", "web", "db",
                     "not-ready"} |->
                 CASE x = "Pod" -> "pod" [] x = "Service" -> "service"
                   [] OTHER -> x]
=============================================================================
