-------------------------- MODULE MCModuleStartup --------------------------
(* The built-in modules, and every list of two or three plugins, and every *)
(* order of four of the five plugins around an interface, and plugins that *)
(* a wildcard finds on the side they have no module for.                   *)
EXTENDS ModuleStartup, TLC

Listed(m, s) == [module |-> m, side |-> s, wildcard |-> FALSE]
Globbed(m, s) == [module |-> m, side |-> s, wildcard |-> TRUE]

Admin(m) == Listed(m, "admin")

(* defaultAdminModules and defaultPublicModules.                           *)
MCBuiltIn ==
  <<Admin("featureflag"), Admin("realtime"), Admin("healthAdmin"), Admin("environment"),
    Admin("apiSpecs"), Admin("apiSpecEditor"), Admin("snapshot"), Admin("config"),
    Admin("auditLog"), Admin("directRequest"), Admin("proxyReplay"), Admin("shadowCompare"),
    Listed("proxy", "public"), Listed("healthPublic", "public")>>

MCAdmin ==
  {Admin(m) : m \in {"featureflag", "realtime", "healthAdmin", "environment", "apiSpecs",
                     "apiSpecEditor", "config", "mcp", "proxyconfig", "auditLog",
                     "shadowCompare", "proxy", "custom", "viewer"}}

MCPublic ==
  {Listed("proxy", "public"), Globbed("proxy", "public"), Globbed("apiSpecs", "public"),
   Listed("healthPublic", "public")}

(* Plugins around one interface, in every order.                           *)
MCStores ==
  {Admin(m) : m \in {"sqlitePlugin", "memoryPlugin", "mainPlugin", "catalog", "report"}}

(* On the public side: a wildcard that finds a plugin with a module for the *)
(* other side only, and plugins around the interface.                      *)
MCSkipped ==
  {Globbed(m, "public") : m \in {"sqlitePlugin", "mainPlugin", "apiSpecs", "custom"}}
MCPublicStores == {Listed(x.module, "public") : x \in MCStores}

(* Equal paths in one list are loaded once; the admin side comes first.    *)
MCPlans ==
  {MCBuiltIn}
    \cup {p \in MCAdmin \X (MCAdmin \cup MCPublic) : p[1] # p[2]}
    \cup {p \in MCAdmin \X MCAdmin \X (MCAdmin \cup MCPublic) : Cardinality({p[1], p[2], p[3]}) = 3}
    \cup {p \in [1..4 -> MCStores] : Cardinality({p[i] : i \in 1..4}) = 4}
    \cup {p \in MCSkipped \X MCPublicStores \X MCPublicStores :
            Cardinality({p[i].module : i \in 1..3}) = 3}

=============================================================================
