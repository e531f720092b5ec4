--------------------------- MODULE MCRemoteTrigger ---------------------------
EXTENDS RemoteTrigger, TLC

CONSTANTS a, b, x

Three == {a, b, x}

(* ab and ax start b and x; named are the sources of other pipelines that the *)
(* graph of the event shows behind its startFrom.  A source outside the event *)
(* never looks up the jobs of the event.                                      *)
Wired(ka, kb, kx, ab, ax, named, join) ==
  LET kind == (a :> ka) @@ (b :> kb) @@ (x :> kx)
  IN  [kind    |-> kind,
       after   |-> (a :> NoSource) @@ (b :> ab) @@ (x :> ax),
       ignored |-> [s \in Three |-> CASE kind[s] = "local" -> named
                                      [] kind[s] = "back"  -> {t \in Three : kind[t] = "local"}
                                      [] OTHER             -> {}],
       join    |-> join]

Running == NoSource

(* requires: [a, b, sd@2:x]: all three running, with x behind other jobs of its *)
(* pipeline; x started by a; x started by b, which a has started                *)
(* requires: [a, sd@2:b, sd@2:x]: x started by a and b running, or both by a    *)
(* requires: [sd@2:a, sd@2:b, sd@2:x], all three running                        *)
(* requires: [sd@2:a, sd@2:b, x], each started by the one before                *)
(* requires: [~sd@1:a, ~sd@1:b, ~sd@1:x], all running, or x started by a        *)
SafeWirings == {Wired("local", "local", "back", Running, Running, {}, TRUE),
                Wired("local", "local", "back", Running, a, {x}, TRUE),
                Wired("local", "local", "back", a, b, {x}, TRUE),
                Wired("local", "back", "back", Running, a, {x}, TRUE),
                Wired("local", "back", "back", a, a, {b, x}, TRUE),
                Wired("back", "back", "back", Running, Running, {}, TRUE),
                Wired("back", "back", "local", a, b, {}, TRUE),
                Wired("forth", "forth", "forth", Running, Running, {}, FALSE),
                Wired("forth", "forth", "forth", Running, a, {}, FALSE)}

(* requires: [a, b, sd@2:x], where a starts b and x; or all three running and x *)
(* in the graph of the event                                                    *)
(* requires: [a, sd@2:b, sd@2:x], all three running                             *)
LostWirings == {Wired("local", "local", "back", a, a, {x}, TRUE),
                Wired("local", "local", "back", Running, Running, {x}, TRUE),
                Wired("local", "back", "back", Running, Running, {}, TRUE)}

(* requires: [~sd@1:a, ~sd@1:b, ~sd@1:x], all three running *)
RemoteOr == {Wired("forth", "forth", "forth", Running, Running, {}, FALSE)}
=============================================================================
