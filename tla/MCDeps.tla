--------------------------------- MODULE MCDeps ---------------------------------
(* Two packages, one of them asked for by two subpaths, and one the registry does not have. *)
EXTENDS Deps

zod  == [name |-> "zod", range |-> "^3", subpath |-> ""]
zodv4 == [name |-> "zod", range |-> "^3", subpath |-> "/v4"]
yaml == [name |-> "yaml", range |-> "latest", subpath |-> ""]
typo == [name |-> "yamll", range |-> "latest", subpath |-> ""]

MCRequests == {zod, zodv4, yaml, typo}
MCBatches == {{zod, typo}, {zodv4, yaml}}
MCRefused == {Alias(typo)}
Nothing == {}
=============================================================================
