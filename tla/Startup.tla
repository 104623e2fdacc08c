------------------------------ MODULE Startup -------------------------------
(***************************************************************************)
(* What an application does with the crate before it has a vault: it asks    *)
(* which trusted execution environments the host has (Tee), it fetches a key  *)
(* (Fetch), or it configures and builds the vault (Builder).  The three share *)
(* no state.                                                               *)
(***************************************************************************)
EXTENDS Tee, Fetch, Builder

VARIABLES
  doing,    \* "probe", "fetch" or "build"
  host,     \* the machine that is probed; None if none is
  report    \* what detect_tee_capabilities returned, None before that

startupVars == <<fetchVars, builderVars, doing, host, report>>

\* Only a behaviour that fetches needs more than one state of the disk.
StartupInit ==
  /\ FetchInit /\ BuilderInit
  /\ report = None
  /\ \/ doing = "fetch" /\ host = None
     \/ /\ \/ doing = "probe" /\ host \in Hosts
           \/ doing = "build" /\ host = None
        /\ entry = CHOOSE e \in [Dirs -> Inodes] : \A c, d \in Dirs : c # d => e[c] # e[d]
        /\ link = Given /\ size = [i \in Inodes |-> 0]
        /\ ~strict_perms /\ ~check_dirs

Detect ==
  /\ doing = "probe" /\ report = None
  /\ report' = detect_tee_capabilities(host)
  /\ UNCHANGED <<fetchVars, builderVars, doing, host>>

Acquire == doing = "fetch" /\ FetchNext /\ UNCHANGED <<builderVars, doing, host, report>>

Configure == doing = "build" /\ BuilderNext /\ UNCHANGED <<fetchVars, doing, host, report>>

\* The application has what it asked for.
Ready ==
  /\ report # None \/ pc = "dropped" \/ stage \in {"failed", "built"}
  /\ UNCHANGED startupVars

StartupNext == Detect \/ Acquire \/ Configure \/ Ready

\* The operating system answers every call in the end, and not always with EINTR.
StartupSpec == StartupInit /\ [][StartupNext]_startupVars /\ WF_startupVars(Step /\ Acquire)

\* A capability is reported as detected only on a machine that has it, and as not
\* detected only on one that has not, whatever CPUID leaves the CPU lacks read as;
\* any_detected is true only on a machine that has one.
DetectionSound ==
  report # None =>
    /\ report \in Reports
    /\ \A c \in Capabilities :
         (report[c] = "Detected" => Has(host, c)) /\ (report[c] = "NotDetected" => ~Has(host, c))
    /\ any_detected(report) => \E c \in Capabilities : Has(host, c)
=============================================================================
