--------------------------- MODULE MCWorkerdBackend ---------------------------
(***************************************************************************)
(* Constants for model-checking WorkerdBackend: two functions that are     *)
(* saved one after the other; the hot reloader and one more source of      *)
(* reloads in live mode, a session of the runtime editor in prebuilt mode. *)
(***************************************************************************)
EXTENDS WorkerdBackend

CONSTANTS f, g, hmr, env, ed1

MCFunctions == {f, g}
FOrNothing == {<<{f}, 1>>, <<{}, 0>>}
OneByOne == {{f}, {g}}
Hmr == {hmr}
Env == {env}
Editor == {ed1}
AllFaults == {"bundle", "shared", "ports", "boot"}
=============================================================================
