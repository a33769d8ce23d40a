---------------------------- MODULE MCOperatorParts ----------------------------
(***************************************************************************)
(* Four parts of the operator that share no state, for TLC: the scan       *)
(* configuration, the console plugin, the default ClusterBaseline and the  *)
(* certificate of the metrics endpoint.  A behaviour is one of one part:   *)
(* the initial state picks it, and the others do not move.                 *)
(***************************************************************************)
EXTENDS ScanBindings

MCProfiles == {"cis", "stig"}
MCOthers   == {"theirs"}
MCValid    == {"daily", "weekly"}

CONSTANTS
    PluginOthers, Attempts, PluginMoves, PluginDisruptions,   \* of ConsolePluginReg
    DefaultMoves, DefaultDisruptions,                         \* of DefaultBaseline
    Handshakes, Rotations, Corrupt, MaxGaps                   \* of MetricsCert

ASSUME PluginMovesAssumption == PluginMoves \in Nat

VARIABLES
    part,
    baseline, ready, image, single, console, consoleCRDs, objects, replicas,   \* of the plugin
    step, copy, oneNode, left, got, fresh, tries, current, seen, byHand,
    pluginMoves, pluginDisruptions,
    object, informed, refused, at, answered, crMoves, crDisruptions,           \* of the default
    disk, newest, cert, mu, hs, shown, gaps                                    \* of the certificate

ofPlugin  == <<baseline, ready, image, single, console, consoleCRDs, objects, replicas,
               step, copy, oneNode, left, got, fresh, tries, current, seen, byHand,
               pluginMoves, pluginDisruptions>>
ofDefault == <<object, informed, refused, at, answered, crMoves, crDisruptions>>
ofCert    == <<disk, newest, cert, mu, hs, shown, gaps>>
allVars   == <<part, vars, ofPlugin, ofDefault, ofCert>>

Plugin == INSTANCE ConsolePluginReg
    WITH Others <- PluginOthers, MaxMoves <- PluginMoves, MaxDisruptions <- PluginDisruptions,
         cond <- ready, crds <- consoleCRDs, pc <- step, cb <- copy, rvOK <- current,
         moves <- pluginMoves, disruptions <- pluginDisruptions

CR == INSTANCE DefaultBaseline
    WITH MaxMoves <- DefaultMoves, MaxDisruptions <- DefaultDisruptions,
         listed <- informed, moves <- crMoves, disruptions <- crDisruptions

Cert == INSTANCE MetricsCert

Off == "off"

NoBindingsPart == Init /\ spec.selected = {}
NoPlugin ==
    /\ baseline = Off /\ ready = Off /\ image = Off /\ single = Off /\ console = Off
    /\ consoleCRDs = Off /\ objects = Off /\ replicas = Off /\ step = Off /\ copy = Off
    /\ oneNode = Off /\ left = Off /\ got = Off /\ fresh = Off /\ tries = Off
    /\ current = Off /\ seen = Off /\ byHand = Off /\ pluginMoves = Off
    /\ pluginDisruptions = Off
NoDefault ==
    /\ object = Off /\ informed = Off /\ refused = Off /\ at = Off /\ answered = Off
    /\ crMoves = Off /\ crDisruptions = Off
NoCert ==
    /\ disk = Off /\ newest = Off /\ cert = Off /\ mu = Off /\ hs = Off /\ shown = Off
    /\ gaps = Off

PartsInit ==
    \/ part = "bindings" /\ Init /\ NoPlugin /\ NoDefault /\ NoCert
    \/ part = "plugin" /\ NoBindingsPart /\ Plugin!Init /\ NoDefault /\ NoCert
    \/ part = "default" /\ NoBindingsPart /\ NoPlugin /\ CR!Init /\ NoCert
    \/ part = "cert" /\ NoBindingsPart /\ NoPlugin /\ NoDefault /\ Cert!Init

BindingsStep(A) == part = "bindings" /\ A /\ UNCHANGED <<part, ofPlugin, ofDefault, ofCert>>
PluginStep(A)   == part = "plugin" /\ A /\ UNCHANGED <<part, vars, ofDefault, ofCert>>
DefaultStep(A)  == part = "default" /\ A /\ UNCHANGED <<part, vars, ofPlugin, ofCert>>
CertStep(A)     == part = "cert" /\ A /\ UNCHANGED <<part, vars, ofPlugin, ofDefault>>

PartsNext ==
    \/ BindingsStep(Next)
    \/ PluginStep(Plugin!Next)
    \/ DefaultStep(CR!Next)
    \/ CertStep(Cert!Next)

\* The worker goes on, the garbage collector and the informer work, and Start
\* runs until it returns.  Nothing is assumed of the handshakes.
PartsSpec ==
    /\ PartsInit /\ [][PartsNext]_allVars
    /\ WF_allVars(BindingsStep(Operator /\ Observe))
    /\ WF_allVars(PluginStep(Plugin!Operator /\ Plugin!Observe))
    /\ WF_allVars(PluginStep(Plugin!Collect /\ Plugin!Observe))
    /\ WF_allVars(DefaultStep(CR!Operator))
    /\ WF_allVars(DefaultStep(CR!Deliver))

------------------------------------------------------------------------------
(* Properties; OwnedAreSelected and ConfiguredIsSound are those of ScanBindings. *)

\* The shared list of plugins: the operator adds and removes its own entry and
\* no other, whoever writes at the same time.
KeepsOthers == [][part = "plugin" => Plugin!KeepsOthers]_allVars

\* What is gone stays gone: with the ClusterBaseline its entry in the list of
\* plugins, and a default ClusterBaseline that an administrator deleted is not
\* created again by the process that had been told it was there.
GoneStaysGone ==
    [][ /\ part = "plugin" => Plugin!LeavesNothing
        /\ part = "default" => CR!NotAgain ]_allVars

\* Nothing older than the beginning is shown: a handshake is not served an older
\* certificate than one served before it began, and the plugin is called deployed
\* only if its entry was listed during the reconcile.
NothingOlder ==
    /\ part = "cert" => Cert!NeverOlder
    /\ part = "plugin" => Plugin!DeployedIsListed

\* In the end the configuration and the plugin follow what is asked for, no
\* deletion hangs, and the provisioning of the default comes to its end.
Settles ==
    <>[]( /\ part = "bindings" => Converged
          /\ part = "plugin" => Plugin!Followed
          /\ part = "default" => CR!Provisioned )
================================================================================
