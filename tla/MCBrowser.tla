---- MODULE MCBrowser ----
(* Two tabs of one browser, one over https and one over http. *)
EXTENDS Browser

CONSTANTS safe, plain

MixedSchemes == [t \in Tab |-> IF t = safe THEN "https" ELSE "http"]
MCLanes == [t \in Tab |-> IF t = safe THEN {"socket", "nav"} ELSE {"fetch", "nav"}]
====
