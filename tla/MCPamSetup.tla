------------------------------- MODULE MCPamSetup -------------------------------
(***************************************************************************)
(* The lock screen, guarded in its auth stack, and a display manager,      *)
(* guarded in its account stack.  The first has a line of the other stack  *)
(* too, and can be opened by a line that suffices.                         *)
(***************************************************************************)
EXTENDS PamSetup

Rule(stack, does) == [stack |-> stack, does |-> does]

Kde == "kde"
Greeter == "plasmalogin"

MCManaged == <<Kde, Greeter>>

MCStackOf == (Kde :> "auth") @@ (Greeter :> "account")

MCShipped ==
  (Kde :> <<Rule("account", "require"), Rule("auth", "suffice")>>)
    @@ (Greeter :> <<Rule("account", "require")>>)

MCPlacements ==
  {(Kde :> "etc") @@ (Greeter :> "vendor"),
   (Kde :> "nowhere") @@ (Greeter :> "etc")}

MCOwnLines ==
  (Kde :> {Rule("auth", "suffice")})
    @@ (Greeter :> {Rule("account", "suffice")})

=============================================================================
