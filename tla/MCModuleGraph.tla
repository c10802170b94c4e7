----------------------------- MODULE MCModuleGraph -----------------------------
(* Two functions; lib/a is _shared/a for f, and g/a for g by a scope of the import map. *)
EXTENDS ModuleGraph, TLC

CONSTANTS f, g

fi == <<"f", "index">>
gi == <<"g", "index">>
ga == <<"g", "a">>
a  == <<"_shared", "a">>
b  == <<"_shared", "b">>
profile == <<"_shared", "profile">>

libA == <<"lib", "a">>
libProfile == <<"lib", "profile">>
toB == <<".", "b">>
zod == <<"zod">>

MCFunctions == {f, g}
MCEntry == (f :> fi) @@ (g :> gi) @@ (Shared :> profile)
MCImports == (fi :> {{libA, zod}, {libA, libProfile}, {libProfile}}) @@ (gi :> {{libA, libProfile}})
             @@ (ga :> {{<<"..", "_shared", "b">>}}) @@ (a :> {{}, {toB}}) @@ (b :> {{}}) @@ (profile :> {{}})
MCStart == (fi :> {libA, zod}) @@ (gi :> {libA, libProfile}) @@ (ga :> {<<"..", "_shared", "b">>})
           @@ (a :> {toB}) @@ (b :> {}) @@ (profile :> {})
MCMap == [imports |-> (<<"lib", "">> :> <<"_shared", "">>),
          scopes |-> (<<"g">> :> (libA :> ga))]
MCDeletable == {a, b}

\* .env, and .env.local that overrides the key.
MCEnvStart == <<{"key"}, {"key"}>>
=============================================================================
