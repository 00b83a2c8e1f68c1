-------------------------------- MODULE Tables --------------------------------
(***************************************************************************)
(* Tables that are written in parts: as @@ and :> of TLC, which have no    *)
(* definition that the provers could use.                                  *)
(***************************************************************************)

first ++ second ==
    [key \in DOMAIN first \cup DOMAIN second |-> IF key \in DOMAIN first THEN first[key] ELSE second[key]]
Entry(key, value) == [k \in {key} |-> value]
===============================================================================
