-------------------------------- MODULE Setup --------------------------------
(***************************************************************************)
(* The operator's commands (core/src/cli): configure with switches or in   *)
(* the wizard, install, start, stop, restart and uninstall, over the files *)
(* they share with each other and with the daemon.                         *)
(*                                                                         *)
(* A file is replaced in one step (a temporary beside it, then rename); a  *)
(* command takes several and can be interrupted between any two.  systemd  *)
(* is external: a service starts if the daemon accepts its configuration   *)
(* and finds its secrets in recursant.env, and is down otherwise.          *)
(***************************************************************************)
EXTENDS Registry, FiniteSets

CONSTANTS
    Operators,
    Shell,      \* per operator, the key variables exported in its shell
    Documents,  \* configurations before the first command, None for none
    Starter,    \* the document configure starts from when there is none
    Edits,      \* bound: the edits and --set-key's considered
    MaxEdits,   \* bound: edits altogether
    Seconds     \* bound: readings of the clock that names a backup

VARIABLES
    config,   \* config.json
    scratch,  \* config.json.check
    backup,   \* config.json.<second>.bak
    second,
    env,      \* the variables of recursant.env
    unit,     \* the service is installed
    daemon,   \* it is serving
    op,       \* each operator's command
    left      \* edits still to come

vars == <<config, scratch, backup, second, env, unit, daemon, op, left>>

files == <<config, scratch, backup, env>>

Idle == [pc |-> "idle"]

Init ==
    /\ config \in Documents /\ scratch = None
    /\ backup = [s \in 1..Seconds |-> None] /\ second = 1
    /\ env = IF config = None THEN {} ELSE Secrets(config)
    /\ unit = FALSE /\ daemon = FALSE
    /\ op = [o \in Operators |-> Idle] /\ left = MaxEdits

Becomes(o, next) == op' = [op EXCEPT ![o] = next]

At(o, pc) == op[o].pc = pc

-----------------------------------------------------------------------------
(* configure *)

(* The document is read whole, or made, and edited in memory.  have is the *)
(* process environment: the shell's, and what recursant.env adds.          *)
Configure(o, wizard) ==
    /\ At(o, "idle")
    /\ Becomes(o, [pc |-> "editing", wizard |-> wizard, created |-> config = None,
                   root |-> IF config = None THEN Starter ELSE config,
                   dirty |-> FALSE, keys |-> {}, have |-> Shell[o] \cup env])
    /\ UNCHANGED <<files, second, unit, daemon, left>>

(* A refused switch ends the command with nothing changed; a refused menu  *)
(* entry returns to the menu.                                              *)
Edit(o, e) ==
    /\ At(o, "editing") /\ left > 0 /\ e.op # "set-key"
    /\ LET r == Apply(op[o].root, e) IN
       IF r.ok \/ op[o].wizard
       THEN Becomes(o, [op[o] EXCEPT !.root = r.doc, !.dirty = TRUE])
       ELSE Becomes(o, Idle)
    /\ left' = left - 1
    /\ UNCHANGED <<files, second, unit, daemon>>

SetKey(o, e) ==
    /\ At(o, "editing") /\ left > 0 /\ e.op = "set-key"
    /\ Becomes(o, [op[o] EXCEPT !.keys = @ \cup {e.key}])
    /\ left' = left - 1
    /\ UNCHANGED <<files, second, unit, daemon>>

(* validate: the result is written beside the configuration, where the     *)
(* daemon's own loader reads it back.  The scratch file is the same for    *)
(* every command.  Keys alone rewrite nothing.                             *)
Save(o) ==
    /\ At(o, "editing")
    /\ IF op[o].wizard \/ op[o].dirty \/ op[o].created
       THEN scratch' = op[o].root /\ Becomes(o, [op[o] EXCEPT !.pc = "written"])
       ELSE scratch' = scratch /\ Becomes(o, [op[o] EXCEPT !.pc = "saved"])
    /\ UNCHANGED <<config, backup, env, second, unit, daemon, left>>

(* --dry-run prints the result and ends.                                   *)
Validate(o, dry) ==
    /\ At(o, "written") /\ (op[o].wizard => ~dry)
    /\ scratch' = None
    /\ Becomes(o, IF Loads(scratch)
                  THEN IF dry THEN Idle ELSE [op[o] EXCEPT !.pc = "checked"]
                  ELSE IF op[o].wizard THEN [op[o] EXCEPT !.pc = "editing"] ELSE Idle)
    /\ UNCHANGED <<config, backup, env, second, unit, daemon, left>>

BackedUpOnce == IF backup[second] = None THEN [backup EXCEPT ![second] = config] ELSE backup

(* rc_cli_backup names the copy by the second and overwrites.              *)
BackedUp == IF config = None THEN backup ELSE [backup EXCEPT ![second] = config]

Backup(o) ==
    /\ At(o, "checked")
    /\ backup' = BackedUp
    /\ Becomes(o, [op[o] EXCEPT !.pc = "backed"])
    /\ UNCHANGED <<config, scratch, env, second, unit, daemon, left>>

Write(o) ==
    /\ At(o, "backed")
    /\ config' = op[o].root
    /\ Becomes(o, [op[o] EXCEPT !.pc = "saved"])
    /\ UNCHANGED <<scratch, backup, env, second, unit, daemon, left>>

(* The keys, and for a new installation its client key, unless the         *)
(* environment has one already.                                            *)
Client(o) ==
    IF op[o].created /\ config # None /\ op[o].root.auth \notin op[o].have \cup op[o].keys
    THEN {op[o].root.auth} ELSE {}

Store(o) ==
    /\ At(o, "saved")
    /\ env' = env \cup op[o].keys \cup Client(o)
    /\ Becomes(o, Idle)
    /\ UNCHANGED <<config, scratch, backup, second, unit, daemon, left>>

(* q in the wizard, or the command is interrupted.                         *)
Interrupt(o) ==
    /\ ~At(o, "idle")
    /\ Becomes(o, Idle)
    /\ UNCHANGED <<files, second, unit, daemon, left>>

-----------------------------------------------------------------------------
(* The service *)

(* systemd: ExecStartPre and ExecStart.                                    *)
Starts == Loads(config) /\ Secrets(config) \subseteq env

(* rc_cli_check with secrets: the command's environment is the shell's,    *)
(* and what recursant.env adds.                                            *)
Checked(o) == Loads(config) /\ Secrets(config) \subseteq Shell[o] \cup env

Install(o) ==
    /\ At(o, "idle") /\ Checked(o)
    /\ unit' = TRUE
    /\ UNCHANGED <<files, second, daemon, op, left>>

Start(o) ==
    /\ At(o, "idle") /\ unit /\ ~daemon
    /\ daemon' = Starts
    /\ UNCHANGED <<files, second, unit, op, left>>

Stop(o) ==
    /\ At(o, "idle") /\ unit
    /\ daemon' = FALSE
    /\ UNCHANGED <<files, second, unit, op, left>>

(* restart checks first: a refused configuration is not restarted into.    *)
Restart(o) ==
    /\ At(o, "idle") /\ unit /\ Checked(o)
    /\ Becomes(o, [pc |-> "restarting"])
    /\ UNCHANGED <<files, second, unit, daemon, left>>

Restarted(o) ==
    /\ At(o, "restarting")
    /\ daemon' = (IF unit THEN Starts ELSE daemon)
    /\ Becomes(o, Idle)
    /\ UNCHANGED <<files, second, unit, left>>

(* --purge removes the configuration and the keys, never a backup.         *)
Uninstall(o, purge) ==
    /\ At(o, "idle")
    /\ unit' = FALSE
    /\ daemon' = (daemon /\ ~unit)
    /\ config' = IF purge THEN None ELSE config
    /\ env' = IF purge THEN {} ELSE env
    /\ UNCHANGED <<scratch, backup, second, op, left>>

Tick ==
    /\ second < Seconds
    /\ second' = second + 1
    /\ UNCHANGED <<files, unit, daemon, op, left>>

Next ==
    \/ \E o \in Operators :
          \/ \E wizard \in BOOLEAN : Configure(o, wizard)
          \/ \E e \in Edits : Edit(o, e) \/ SetKey(o, e)
          \/ Save(o) \/ (\E dry \in BOOLEAN : Validate(o, dry)) \/ Backup(o) \/ Write(o) \/ Store(o) \/ Interrupt(o)
          \/ Install(o) \/ Start(o) \/ Stop(o) \/ Restart(o) \/ Restarted(o)
          \/ \E purge \in BOOLEAN : Uninstall(o, purge)
    \/ Tick

Spec == Init /\ [][Next]_vars

-----------------------------------------------------------------------------
(* "No identifier may resolve differently as an alias or concrete model; a *)
(* concrete model name identifies exactly one provider" (runtime.c): under *)
(* a configuration on disk a requested name is served as the one thing the *)
(* document makes it mean, and what holds personal data is private.        *)
NamesResolveOnce ==
    config # None =>
        /\ \A name \in Names(config) : Meanings(config, name) = {Served(config, name)}
        /\ config.compliance => Trust(config, Served(config, Default(config).model).provider) = "private"

(* "same meaning, named providers" (configure.c): converting the legacy    *)
(* form on disk gives a document the daemon accepts, where every name is   *)
(* served as before and personal data goes where it went.                  *)
ConversionKeepsMeaning ==
    config # None => 
        LET converted == to_registry(config) IN
        /\ Loads(converted) /\ Secrets(converted) = Secrets(config)
        /\ Default(converted) = Default(config)
        /\ \A name \in Names(config) : Served(converted, name) = Served(config, name)

(* "an invalid result is never written" (configure.c:27): whatever is      *)
(* edited, refused or interrupted, by however many commands at once, a     *)
(* configuration replaced is replaced by one the daemon accepts.           *)
InvalidNeverWritten ==
    [][config' # config => config' = None \/ Loads(config')]_vars

(* "your previous settings are kept as a dated backup" (README.md): a save *)
(* replaces only what is in a backup at that moment.  (A later save of the *)
(* same second may still overwrite that copy with its own.)                *)
PreviousIsKept ==
    [][config' # config /\ None \notin {config, config'} =>
          config \in {backup[s] : s \in 1..Seconds}]_vars
=============================================================================
