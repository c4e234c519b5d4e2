---------------------------- MODULE MCAlgorithms -----------------------------
(***************************************************************************)
(* The parts that stand alone, for TLC: the preprocessors, the impact      *)
(* search, the glob matcher, the scanner of the language server, and of    *)
(* the MCP library the line decoder, the discovery of an authorization     *)
(* server, the set-up of a client, the checks of an HTTP request and the   *)
(* tool router.  A behaviour is a run of one of them, chosen at the start; *)
(* the others keep a state they can be in.                                 *)
(*                                                                         *)
(* SvPreprocessor: a file, a file it can include and that can include it,  *)
(* a file that cannot be read, one macro.  Pass1Standard: two macros, and  *)
(* enough lines for a chain of three branches inside another block.        *)
(* Impact: all forests of five nodes, deep enough for a node four steps    *)
(* away.                                                                   *)
(***************************************************************************)
EXTENDS SvPreprocessor, Pass1Standard, Impact, GlobMatch, LspTokens,
        Discovery, ClientSetup, LineCodec, HttpGate, MacroExpand, UvmMacros, ToolRouter,
        Auth

VARIABLE part
mcVars == <<includeVars, pass1Vars, impactVars, globVars, tokenVars,
            discoveryVars, setupVars, codecVars, gateVars, macroVars, uvmVars,
            routerVars, authVars, part>>

MCHeader == {<<"broken", "link", "scope">>, <<"unclosed", "link">>}

Entry(n, p) == [name |-> n, port |-> p]
BlankHost == Entry("blank", 0)
MCAllowedHosts == {{}, {BlankHost}, {Entry("a", 0), BlankHost}, {Entry("a", 80), Entry("b", 1)}}
MCHostHeader == {Entry("a", 0), Entry("a", 80), Entry("b", 1), Entry("b", 0)}
MCAllowedOrigins == {{}, {Entry("http a", 0)}, {Entry("http a", 80), Entry("null", 0)}}
MCOriginHeader == {Entry("http a", 80), Entry("http a", 0), Entry("https a", 80), Entry("null", 0)}
OpenGate == [hosts |-> {}, origins |-> {}, stateful |-> TRUE, json |-> FALSE]

MCBodies == {<<"a", "x", "b">>, <<"b", "a">>}

(* A table with a name that goes on from another one                       *)
MCTable == <<"utils", "do", "do_with">>
MCShorter == {<<"do", "do_with">>}

(* An authorization server that says nothing of its issuer, and one whose  *)
(* callbacks must name it.                                                 *)
Silent == [issuer |-> "none", required |-> FALSE]
MCAdvertised == {Silent, [issuer |-> "server", required |-> TRUE]}

(* One part begins with any of its inputs, the others with one             *)
Begins(p, AnyInput, OneInput) == IF part = p THEN AnyInput ELSE OneInput

MCInit ==
  /\ part \in {"include", "pass1", "impact", "glob", "tokens", "discovery", "setup", "codec",
              "gate", "macro", "uvm", "router", "auth"}
  /\ Begins("include", IncludeInit, defines = {} /\ IncludeInit)
  /\ Begins("pass1", Pass1Init, pass1_defines = {} /\ Pass1Init)
  /\ Begins("impact", ImpactInit,
            /\ tool = "cli" /\ targets = {1} /\ exists = GraphNode
            /\ parent = [n \in GraphNode |-> 0] /\ via = [n \in GraphNode |-> "Contains"]
            /\ ImpactInit)
  /\ Begins("glob", GlobInit, GlobCalled(<<>>, <<>>))
  /\ Begins("tokens", TokensInit, TokensCalled(<<>>))
  /\ Begins("discovery", DiscoveryInit, DiscoveryCalled({}))
  /\ Begins("setup", SetupInit, SetupCalled([flow |-> "secret", resource |-> TRUE], PlainServer, {}))
  /\ Begins("codec", CodecInit, CodecCalled(<<>>, 0))
  /\ Begins("gate", GateInit, GateCalled(OpenGate))
  /\ Begins("macro", MacroInit, MacroCalled(<<>>, <<>>))
  /\ Begins("uvm", UvmInit, UvmCalled(<<>>))
  /\ Begins("router", RouterInit, RouterStarts(<<>>, {}, FALSE))
  /\ Begins("auth", AuthInit, advertised = Silent /\ AuthInit)

(* A step is one of the part                                               *)
Runs(p, A, itsVars) == IF part = p THEN A ELSE UNCHANGED itsVars

MCNext ==
  /\ UNCHANGED part
  /\ Runs("include", IncludeNext, includeVars) /\ Runs("pass1", Pass1Next, pass1Vars)
  /\ Runs("impact", ImpactNext, impactVars)    /\ Runs("glob", GlobNext, globVars)
  /\ Runs("tokens", TokensNext, tokenVars)     /\ Runs("discovery", DiscoveryNext, discoveryVars)
  /\ Runs("setup", SetupNext, setupVars)       /\ Runs("codec", CodecNext, codecVars)
  /\ Runs("gate", GateNext, gateVars)          /\ Runs("macro", MacroNext, macroVars)
  /\ Runs("uvm", UvmNext, uvmVars)             /\ Runs("router", RouterNext, routerVars)
  /\ Runs("auth", AuthNext, authVars)

MCSpec == MCInit /\ [][MCNext]_mcVars
=============================================================================
