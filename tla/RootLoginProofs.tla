-------------------------- MODULE RootLoginProofs ---------------------------
(***************************************************************************)
(* RootCanLogin of RootLogin holds for every set of keys and any number of *)
(* changes, hardenings, edits, kills and reboots, as long as no line of    *)
(* authorized_keys is a key behind a "#" (violation_last_key shows why).   *)
(***************************************************************************)
EXTENDS RootLogin, FiniteSetTheorems, TLAPS

(* No line is a key in a comment, the one form the code counts and sshd    *)
(* does not accept.                                                        *)
NoCommentedKeys == "commented" \notin LineForms

KeyWorks == Effective(rlLines) # {}

LoginSteps == {"none", "read", "check", "write", "dropin", "arm", "reload", "restore", "load",
          "drop", "cancel"}

KeyChanges == [op : {"add", "delete"}, key : RootKeys, listing : SUBSET RootKeys]

LoginShells == [op : {"none", "add", "delete", "harden", "confirm", "rollback"},
           step : LoginSteps, key : RootKeys \cup {""}, seen : SUBSET AnyLine]

LoginWindows == [open : BOOLEAN, before : BOOLEAN]

ChangesKeys(shell) ==
    /\ shell.step \in {"read", "check", "write"} <=> shell.op \in {"add", "delete"}
    /\ shell.op \in {"add", "delete"} => shell.key \in RootKeys

(* The shapes the argument needs. *)
LoginShapeInv ==
    /\ rlLines \in SUBSET AnyLine /\ rlTasks \in SUBSET KeyChanges
    /\ rlShell \in LoginShells /\ ChangesKeys(rlShell)
    /\ rlWindow \in LoginWindows
    /\ {rlFile, rlLive, rlTimer, rlRaced} \subseteq BOOLEAN
    /\ rlAuto \in {"none", "restore", "load", "drop"}

(* What a deletion will write leaves a key that works. *)
DeletionInv ==
    rlShell.op = "delete" =>
        /\ rlShell.step \in {"check", "write"} => rlShell.seen = rlLines
        /\ rlShell.step = "write" =>
              Deletable(rlLines) /\ rlShell.key \in Listed(rlLines)

(* A timer or a rollback without a window is about to be stopped. *)
StrayInv ==
    /\ (rlTimer \/ rlAuto # "none") /\ ~rlWindow.open => rlShell.step = "cancel"
    /\ rlShell.step \in {"dropin", "arm"} => rlWindow.open /\ ~rlTimer /\ rlAuto = "none"

(* What each configuration needs: the one on disk, the one sshd has loaded *)
(* and the one a rollback restores.                                        *)
ForbidInv ==
    /\ rlFile => KeyWorks \/ rlWindow.open
    /\ rlLive => KeyWorks \/ rlWindow.open
    /\ rlWindow.open /\ rlWindow.before => KeyWorks
    /\ rlShell.op = "confirm" => KeyWorks
    /\ rlShell.step \in {"dropin", "arm"} => (rlLive => KeyWorks)
    /\ rlShell.step \in {"load", "drop"} => (rlFile => KeyWorks)
    /\ rlShell.step = "drop" => (rlLive => KeyWorks)
    /\ rlAuto \in {"load", "drop"} => (rlFile => KeyWorks)
    /\ rlAuto = "drop" => (rlLive => KeyWorks)

LoginInv == LoginShapeInv /\ (~rlRaced => DeletionInv /\ StrayInv /\ ForbidInv)
-----------------------------------------------------------------------------
(* The initial states.                                                     *)
LEMMA LoginInitInv == LoginInit => LoginInv
<1> SUFFICES ASSUME LoginInit
             PROVE  LoginInv
  OBVIOUS
<1>1. rlShell \in LoginShells /\ ChangesKeys(rlShell) /\ rlWindow \in LoginWindows
  BY DEF LoginInit, LoginShells, ChangesKeys, LoginWindows, LoginSteps, NoAuthWindow, NoRlShell
<1>2. LoginShapeInv
  BY <1>1 DEF LoginInit, LoginShapeInv
<1>3. DeletionInv /\ StrayInv /\ ForbidInv
  BY DEF LoginInit, DeletionInv, StrayInv, ForbidInv, NoAuthWindow, NoRlShell
<1> QED
  BY <1>2, <1>3 DEF LoginInv

(* The shapes of the shell and of the window: what the steps make of them. *)
LEMMA GoShape ==
  ASSUME rlShell \in LoginShells, rlShell.op \notin {"add", "delete"},
         NEW s \in LoginSteps \ {"read", "check", "write"},
         rlShell' = [rlShell EXCEPT !.step = s]
  PROVE  rlShell' \in LoginShells /\ ChangesKeys(rlShell')
  BY DEF LoginShells, ChangesKeys

(* A command of the SSH manager that begins holds no lines of the key file. *)
LEMMA BeginShape ==
  ASSUME NEW o \in {"harden", "confirm", "rollback"},
         NEW s \in LoginSteps \ {"read", "check", "write"}
  PROVE  /\ [NoRlShell EXCEPT !.op = o, !.step = s] \in LoginShells
         /\ ChangesKeys([NoRlShell EXCEPT !.op = o, !.step = s])
  BY DEF LoginShells, ChangesKeys, NoRlShell, LoginSteps

(* Without a command nothing is held. *)
LEMMA IdleShape ==
  /\ NoRlShell \in LoginShells /\ ChangesKeys(NoRlShell)
  /\ NoAuthWindow \in LoginWindows
  BY DEF LoginShells, ChangesKeys, NoRlShell, LoginSteps, NoAuthWindow, LoginWindows

(* Every step keeps the shapes.                                            *)
LEMMA ShapeStep == LoginShapeInv /\ [LoginNext]_loginVars => LoginShapeInv'
<1> SUFFICES ASSUME LoginShapeInv, [LoginNext]_loginVars
             PROVE  LoginShapeInv'
  OBVIOUS
<1> USE IdleShape DEF LoginShapeInv
<1>1. ASSUME NEW op \in {"add", "delete"}, NEW k \in RootKeys, PreviewKey(op, k)
      PROVE  LoginShapeInv'
  <2>1. Listed(rlLines) \in SUBSET RootKeys
    BY DEF Listed, KeyLines, AnyLine, Junk
  <2>2. [op |-> op, key |-> k, listing |-> Listed(rlLines)] \in KeyChanges
    BY <2>1 DEF KeyChanges
  <2>3. rlTasks' \in SUBSET KeyChanges
    BY <1>1, <2>2 DEF PreviewKey
  <2> QED
    BY <1>1, <2>3 DEF PreviewKey, rlAuth
<1>2. ASSUME NEW t \in rlTasks, ExecuteKey(t)
      PROVE  LoginShapeInv'
  <2>1. t \in KeyChanges
    OBVIOUS
  <2>2. [op |-> t.op, step |-> "read", key |-> t.key, seen |-> {}] \in LoginShells
    BY <2>1 DEF KeyChanges, LoginShells, LoginSteps
  <2>3. rlShell' \in LoginShells /\ ChangesKeys(rlShell')
    <3>1. CASE t.listing = Listed(rlLines)
      <4>1. rlShell' = [op |-> t.op, step |-> "read", key |-> t.key, seen |-> {}]
        BY <1>2, <3>1 DEF ExecuteKey
      <4>2. t.op \in {"add", "delete"} /\ t.key \in RootKeys
        BY <2>1 DEF KeyChanges
      <4> QED
        BY <2>2, <4>1, <4>2 DEF ChangesKeys
    <3>2. CASE t.listing # Listed(rlLines)
      BY <1>2, <3>2 DEF ExecuteKey
    <3> QED
      BY <3>1, <3>2
  <2> QED
    BY <1>2, <2>3 DEF ExecuteKey, rlAuth
<1>3. ASSUME NEW l \in AnyLine, EditAuthorizedKeys(l)
      PROVE  LoginShapeInv'
  <2>1. rlLines' \in SUBSET AnyLine
    BY <1>3 DEF EditAuthorizedKeys
  <2> QED
    BY <1>3, <2>1 DEF EditAuthorizedKeys, rlAuth
<1>4. CASE ReadAuthorizedKeys
  <2>1. rlShell' \in LoginShells /\ ChangesKeys(rlShell')
    BY <1>4 DEF ReadAuthorizedKeys, AtRl, LoginShells, ChangesKeys, LoginSteps
  <2> QED
    BY <1>4, <2>1 DEF ReadAuthorizedKeys, rlAuth
<1>5. CASE CheckKeys
  <2>1. CASE ~KeyChangeAllowed
    BY <1>5, <2>1 DEF CheckKeys, rlKeys, rlAuth
  <2>2. CASE KeyChangeAllowed
    <3>1. rlShell' \in LoginShells /\ ChangesKeys(rlShell')
      BY <1>5, <2>2 DEF CheckKeys, AtRl, LoginShells, ChangesKeys, LoginSteps
    <3> QED
      BY <1>5, <3>1 DEF CheckKeys, rlKeys, rlAuth
  <2> QED
    BY <2>1, <2>2
<1>6. CASE WriteAuthorizedKeys
  <2>1. rlShell.seen \in SUBSET AnyLine
    BY DEF LoginShells
  <2>2. CASE rlShell.op = "delete"
    BY <1>6, <2>1, <2>2 DEF WriteAuthorizedKeys, Remaining, rlAuth
  <2>3. CASE rlShell.op # "delete"
    <3>1. rlShell.op = "add"
      BY <1>6, <2>3 DEF WriteAuthorizedKeys, AtRl, ChangesKeys
    <3>2. [key |-> rlShell.key, form |-> "plain"] \in AnyLine
      BY <3>1, LoginAssumption DEF ChangesKeys, AnyLine
    <3>3. rlLines' \in SUBSET AnyLine
      BY <1>6, <2>1, <2>3, <3>2 DEF WriteAuthorizedKeys
    <3> QED
      BY <1>6, <3>3 DEF WriteAuthorizedKeys, rlAuth
  <2> QED
    BY <2>2, <2>3
<1>7. CASE BeginHardening
  <2>1. rlShell' \in LoginShells /\ ChangesKeys(rlShell')
    BY <1>7, BeginShape DEF BeginHardening, LoginSteps
  <2>2. rlWindow' \in LoginWindows
    BY <1>7 DEF BeginHardening, LoginWindows
  <2> QED
    BY <1>7, <2>1, <2>2 DEF BeginHardening, rlKeys
<1>8. CASE WriteDropin
  <2>1. CASE rlShell' = NoRlShell \/ UNCHANGED rlShell
    BY <1>8, <2>1 DEF WriteDropin, rlKeys, rlAuth, LoginWindows
  <2>2. CASE ~(rlShell' = NoRlShell \/ UNCHANGED rlShell)
    <3>1. rlShell.op \notin {"add", "delete"}
      BY <1>8, <2>2 DEF WriteDropin, AtRl, ChangesKeys
    <3>2. \E s \in LoginSteps \ {"read", "check", "write"} :
             rlShell' = [rlShell EXCEPT !.step = s]
      BY <1>8, <2>2 DEF WriteDropin, GoRl, LoginSteps
    <3>3. rlShell' \in LoginShells /\ ChangesKeys(rlShell')
      BY <3>1, <3>2, GoShape
    <3> QED
      BY <1>8, <3>3 DEF WriteDropin, rlKeys, rlAuth, LoginWindows
  <2> QED
    BY <2>1, <2>2
<1>9. CASE ArmAuthTimer
  <2>1. CASE rlShell' = NoRlShell \/ UNCHANGED rlShell
    BY <1>9, <2>1 DEF ArmAuthTimer, rlKeys, rlAuth, LoginWindows
  <2>2. CASE ~(rlShell' = NoRlShell \/ UNCHANGED rlShell)
    <3>1. rlShell.op \notin {"add", "delete"}
      BY <1>9, <2>2 DEF ArmAuthTimer, AtRl, ChangesKeys
    <3>2. \E s \in LoginSteps \ {"read", "check", "write"} :
             rlShell' = [rlShell EXCEPT !.step = s]
      BY <1>9, <2>2 DEF ArmAuthTimer, GoRl, LoginSteps
    <3>3. rlShell' \in LoginShells /\ ChangesKeys(rlShell')
      BY <3>1, <3>2, GoShape
    <3> QED
      BY <1>9, <3>3 DEF ArmAuthTimer, rlKeys, rlAuth, LoginWindows
  <2> QED
    BY <2>1, <2>2
<1>10. CASE ReloadSsh
  <2>1. CASE rlShell' = NoRlShell \/ UNCHANGED rlShell
    BY <1>10, <2>1 DEF ReloadSsh, rlKeys, rlAuth
  <2>2. CASE ~(rlShell' = NoRlShell \/ UNCHANGED rlShell)
    <3>1. rlShell.op \notin {"add", "delete"}
      BY <1>10, <2>2 DEF ReloadSsh, IfHardened, NotHardened, AtRl, ChangesKeys
    <3>2. \E s \in LoginSteps \ {"read", "check", "write"} :
             rlShell' = [rlShell EXCEPT !.step = s]
      BY <1>10, <2>2 DEF ReloadSsh, IfHardened, NotHardened, LoginSteps
    <3>3. rlShell' \in LoginShells /\ ChangesKeys(rlShell')
      BY <3>1, <3>2, GoShape
    <3> QED
      BY <1>10, <3>3 DEF ReloadSsh, rlKeys, rlAuth
  <2> QED
    BY <2>1, <2>2
<1>11. CASE ConfirmHardening
  <2>1. rlShell' \in LoginShells /\ ChangesKeys(rlShell')
    BY <1>11, BeginShape DEF ConfirmHardening, LoginSteps
  <2> QED
    BY <1>11, <2>1 DEF ConfirmHardening, rlKeys, rlAuth
<1>12. CASE DropAuthWindow
  <2>1. CASE rlShell' = NoRlShell \/ UNCHANGED rlShell
    BY <1>12, <2>1 DEF DropAuthWindow, rlKeys, rlAuth
  <2>2. CASE ~(rlShell' = NoRlShell \/ UNCHANGED rlShell)
    <3>1. rlShell.op \notin {"add", "delete"}
      BY <1>12, <2>2 DEF DropAuthWindow, AtRl, ChangesKeys
    <3>2. \E s \in LoginSteps \ {"read", "check", "write"} :
             rlShell' = [rlShell EXCEPT !.step = s]
      BY <1>12, <2>2 DEF DropAuthWindow, GoRl, LoginSteps
    <3>3. rlShell' \in LoginShells /\ ChangesKeys(rlShell')
      BY <3>1, <3>2, GoShape
    <3> QED
      BY <1>12, <3>3 DEF DropAuthWindow, rlKeys, rlAuth
  <2> QED
    BY <2>1, <2>2
<1>13. CASE CancelAuthTimer
  BY <1>13 DEF CancelAuthTimer, rlKeys, rlAuth
<1>14. CASE BeginRollback
  <2>1. rlShell' \in LoginShells /\ ChangesKeys(rlShell')
    BY <1>14, BeginShape DEF BeginRollback, LoginSteps
  <2> QED
    BY <1>14, <2>1 DEF BeginRollback, rlKeys, rlAuth
<1>15. CASE AuthTimerFires
  BY <1>15 DEF AuthTimerFires, rlKeys, rlAuth
<1>16. CASE RestoreDropin
  <2>1. CASE rlShell' = NoRlShell \/ UNCHANGED rlShell
    BY <1>16, <2>1 DEF RestoreDropin, rlKeys, rlAuth, LoginWindows
  <2>2. CASE ~(rlShell' = NoRlShell \/ UNCHANGED rlShell)
    <3>1. rlShell.op \notin {"add", "delete"}
      BY <1>16, <2>2 DEF RestoreDropin, AtRl, ChangesKeys
    <3>2. \E s \in LoginSteps \ {"read", "check", "write"} :
             rlShell' = [rlShell EXCEPT !.step = s]
      BY <1>16, <2>2 DEF RestoreDropin, GoRl, LoginSteps
    <3>3. rlShell' \in LoginShells /\ ChangesKeys(rlShell')
      BY <3>1, <3>2, GoShape
    <3> QED
      BY <1>16, <3>3 DEF RestoreDropin, rlKeys, rlAuth, LoginWindows
  <2> QED
    BY <2>1, <2>2
<1>17. CASE NothingToRestore
  BY <1>17 DEF NothingToRestore, rlKeys, rlAuth
<1>18. CASE LoadRestored
  <2>1. CASE rlShell' = NoRlShell \/ UNCHANGED rlShell
    BY <1>18, <2>1 DEF LoadRestored, rlKeys, rlAuth
  <2>2. CASE ~(rlShell' = NoRlShell \/ UNCHANGED rlShell)
    <3>1. rlShell.op \notin {"add", "delete"}
      BY <1>18, <2>2 DEF LoadRestored, AtRl, ChangesKeys
    <3>2. \E s \in LoginSteps \ {"read", "check", "write"} :
             rlShell' = [rlShell EXCEPT !.step = s]
      BY <1>18, <2>2 DEF LoadRestored, GoRl, LoginSteps
    <3>3. rlShell' \in LoginShells /\ ChangesKeys(rlShell')
      BY <3>1, <3>2, GoShape
    <3> QED
      BY <1>18, <3>3 DEF LoadRestored, rlKeys, rlAuth
  <2> QED
    BY <2>1, <2>2
<1>19. CASE DropRestored
  BY <1>19 DEF DropRestored, rlKeys, rlAuth
<1>20. CASE LoadFails
  BY <1>20 DEF LoadFails, rlKeys, rlAuth
<1>21. CASE KillLoginCommand
  BY <1>21 DEF KillLoginCommand, rlKeys, rlAuth
<1>22. CASE RebootLogin
  BY <1>22 DEF RebootLogin, rlKeys, rlAuth
<1>23. CASE UNCHANGED loginVars
  BY <1>23 DEF loginVars
<1> QED
  BY <1>1, <1>2, <1>3, <1>4, <1>5, <1>6, <1>7, <1>8, <1>9, <1>10, <1>11, <1>12, <1>13, <1>14, <1>15, <1>16, <1>17, <1>18, <1>19, <1>20, <1>21, <1>22, <1>23 DEF LoginNext

-----------------------------------------------------------------------------
(* A key that works stays one: only a deletion takes keys away, and it      *)
(* keeps one.                                                              *)
LEMMA DeletionKeepsOne ==
  ASSUME NoCommentedKeys, rlLines \in SUBSET AnyLine, NEW k,
         k \in Listed(rlLines), Deletable(rlLines)
  PROVE  Effective(Remaining(rlLines, k)) # {}
<1>1. Listed(rlLines) # {k}
  <2>1. Cardinality({k}) = 1
    BY FS_Singleton
  <2> QED
    BY <2>1 DEF Deletable
<1>2. PICK other \in Listed(rlLines) : other # k
  BY <1>1
<1>3. PICK l \in rlLines \ {Junk} : l.key = other
  BY <1>2 DEF Listed, KeyLines
<1>4. l.form \in {"plain", "options"}
  BY <1>3, LoginAssumption DEF NoCommentedKeys, AnyLine
<1> QED
  BY <1>2, <1>3, <1>4 DEF Effective, Remaining

(* No step takes away the last key that works, unless a race is lost. *)
LEMMA WorksStays ==
  ASSUME NoCommentedKeys, LoginInv, [LoginNext]_loginVars, ~rlRaced'
  PROVE  ~rlRaced /\ (KeyWorks => KeyWorks')
<1> USE DEF KeyWorks
<1>1. ~rlRaced
  BY DEF LoginNext, loginVars, PreviewKey, ExecuteKey, ReadAuthorizedKeys, CheckKeys,
         WriteAuthorizedKeys, BeginHardening, WriteDropin, ArmAuthTimer, ReloadSsh,
         ConfirmHardening, DropAuthWindow, CancelAuthTimer, BeginRollback, AuthTimerFires,
         RestoreDropin, NothingToRestore, LoadRestored, DropRestored, LoadFails,
         EditAuthorizedKeys, KillLoginCommand, RebootLogin, rlKeys, LoginInv, LoginShapeInv
<1>2. LoginShapeInv /\ DeletionInv
  BY <1>1 DEF LoginInv
<1>3. CASE WriteAuthorizedKeys
  <2>1. CASE rlShell.op = "delete"
    <3>1. rlShell.seen = rlLines /\ Deletable(rlLines) /\ rlShell.key \in Listed(rlLines)
      BY <1>2, <1>3, <2>1 DEF WriteAuthorizedKeys, AtRl, DeletionInv
    <3>2. rlLines' = Remaining(rlLines, rlShell.key)
      BY <1>3, <2>1, <3>1 DEF WriteAuthorizedKeys
    <3> QED
      BY <1>1, <1>2, <3>1, <3>2, DeletionKeepsOne DEF LoginShapeInv
  <2>2. CASE rlShell.op # "delete"
    <3>1. [key |-> rlShell.key, form |-> "plain"] \in rlLines'
      BY <1>3, <2>2 DEF WriteAuthorizedKeys
    <3> QED
      BY <1>1, <3>1 DEF Effective
  <2> QED
    BY <2>1, <2>2
<1>4. ASSUME NEW l \in AnyLine, EditAuthorizedKeys(l)
      PROVE  KeyWorks => KeyWorks'
  BY <1>4 DEF EditAuthorizedKeys
<1>5. CASE UNCHANGED rlLines
  BY <1>1, <1>5
<1> QED
  BY <1>1, <1>3, <1>4, <1>5
  DEF LoginNext, loginVars, PreviewKey, ExecuteKey, ReadAuthorizedKeys, CheckKeys,
      BeginHardening, WriteDropin, ArmAuthTimer, ReloadSsh, ConfirmHardening,
      DropAuthWindow, CancelAuthTimer, BeginRollback, AuthTimerFires, RestoreDropin,
      NothingToRestore, LoadRestored, DropRestored, LoadFails, KillLoginCommand,
      RebootLogin, rlKeys
-----------------------------------------------------------------------------
(* Every step keeps the invariant; its parts are about runs in which no    *)
(* race was lost.                                                          *)
LEMMA KeyChangeStep ==
  ASSUME LoginInv, ~rlRaced, ~rlRaced', KeyWorks => KeyWorks',
         \/ \E op \in {"add", "delete"}, k \in RootKeys : PreviewKey(op, k)
         \/ \E t \in rlTasks : ExecuteKey(t)
         \/ ReadAuthorizedKeys \/ CheckKeys \/ WriteAuthorizedKeys
         \/ \E l \in AnyLine : EditAuthorizedKeys(l)
  PROVE  DeletionInv' /\ StrayInv' /\ ForbidInv'
<1> USE DEF LoginInv, DeletionInv, StrayInv, ForbidInv, rlAuth, rlKeys
<1>1. LoginShapeInv /\ DeletionInv /\ StrayInv /\ ForbidInv
  OBVIOUS
<1>2. ASSUME NEW op \in {"add", "delete"}, NEW k \in RootKeys, PreviewKey(op, k)
      PROVE  DeletionInv' /\ StrayInv' /\ ForbidInv'
  BY <1>1, <1>2 DEF PreviewKey
<1>3. ASSUME NEW t \in rlTasks, ExecuteKey(t)
      PROVE  DeletionInv' /\ StrayInv' /\ ForbidInv'
  <2>1. t.op \in {"add", "delete"}
    BY DEF LoginShapeInv, KeyChanges
  <2> QED
    BY <1>1, <1>3, <2>1 DEF ExecuteKey, AtRl
<1>4. CASE ReadAuthorizedKeys
  BY <1>1, <1>4 DEF ReadAuthorizedKeys, AtRl, LoginShapeInv, LoginShells
<1>5. CASE CheckKeys
  BY <1>1, <1>5 DEF CheckKeys, AtRl, KeyChangeAllowed, LoginShapeInv, LoginShells, NoRlShell
<1>6. CASE WriteAuthorizedKeys
  BY <1>1, <1>6 DEF WriteAuthorizedKeys, AtRl, NoRlShell
<1>7. ASSUME NEW l \in AnyLine, EditAuthorizedKeys(l)
      PROVE  DeletionInv' /\ StrayInv' /\ ForbidInv'
  BY <1>1, <1>7 DEF EditAuthorizedKeys
<1> QED
  BY <1>2, <1>3, <1>4, <1>5, <1>6, <1>7

(* The fields that steps of a command give its record.                     *)
LEMMA ShellFields ==
  /\ NoRlShell.op = "none" /\ NoRlShell.step = "none" /\ NoAuthWindow.open = FALSE
  /\ \A s \in LoginSteps : rlShell \in LoginShells /\ GoRl(s) =>
        rlShell'.step = s /\ rlShell'.op = rlShell.op
  /\ {"arm", "reload", "restore"} \subseteq LoginSteps
  BY DEF NoRlShell, NoAuthWindow, LoginShells, GoRl, LoginSteps

(* Hardening, its confirmation, its rollback, its timer, kills and reboots *)
(* keep the three parts of the invariant.                                  *)
LEMMA HardeningStep ==
  ASSUME LoginInv, ~rlRaced, ~rlRaced', KeyWorks => KeyWorks',
         \/ BeginHardening \/ WriteDropin \/ ArmAuthTimer \/ ReloadSsh
         \/ ConfirmHardening \/ DropAuthWindow \/ CancelAuthTimer \/ BeginRollback
         \/ AuthTimerFires \/ RestoreDropin \/ NothingToRestore \/ LoadRestored
         \/ DropRestored \/ LoadFails \/ KillLoginCommand \/ RebootLogin
  PROVE  DeletionInv' /\ StrayInv' /\ ForbidInv'
<1>1. LoginShapeInv /\ DeletionInv /\ StrayInv /\ ForbidInv
  BY DEF LoginInv
<1>2. ChangesKeys(rlShell) /\ rlShell \in LoginShells /\ rlWindow \in LoginWindows
  BY <1>1 DEF LoginShapeInv
<1> USE DEF DeletionInv, StrayInv, ForbidInv, rlAuth, rlKeys, AtRl
<1>3. CASE BeginHardening
  BY <1>1, <1>2, <1>3 DEF BeginHardening, GoRl, NoAuthWindow,
      NoRlShell, ChangesKeys, LoginShells, LoginWindows
<1>4. CASE WriteDropin
  <2>1. rlShell.op # "delete"
    BY <1>1, <1>2, <1>4 DEF WriteDropin, ChangesKeys
  <2>2. CASE GoRl("arm") /\ UNCHANGED rlWindow
    BY <1>1, <1>2, <1>4, <2>1, <2>2, ShellFields DEF WriteDropin
  <2>3. CASE rlFile' = rlWindow.before /\ rlWindow' = NoAuthWindow /\ rlShell' = NoRlShell
    BY <1>1, <1>4, <2>1, <2>3, ShellFields DEF WriteDropin
  <2> QED
    BY <1>4, <2>2, <2>3 DEF WriteDropin
<1>5. CASE ArmAuthTimer
  <2>1. rlShell.op # "delete"
    BY <1>1, <1>2, <1>5 DEF ArmAuthTimer, ChangesKeys
  <2>2. CASE GoRl("reload") /\ UNCHANGED <<rlWindow, rlFile>>
    BY <1>1, <1>2, <1>5, <2>1, <2>2, ShellFields DEF ArmAuthTimer
  <2>3. CASE /\ rlFile' = rlWindow.before /\ rlWindow' = NoAuthWindow
             /\ rlShell' = NoRlShell /\ rlTimer' = FALSE
    BY <1>1, <1>5, <2>1, <2>3, ShellFields DEF ArmAuthTimer
  <2> QED
    BY <1>5, <2>2, <2>3 DEF ArmAuthTimer
<1>6. CASE ReloadSsh
  <2>1. rlShell.op # "delete"
    BY <1>1, <1>2, <1>6 DEF ReloadSsh, ChangesKeys
  <2>2. rlShell'.step \in {"none", "restore"} /\ rlShell'.op \in {"none", rlShell.op}
    <3>1. rlShell' \in {NoRlShell, NotHardened}
      BY <1>6 DEF ReloadSsh, IfHardened
    <3>2. NoRlShell.step = "none" /\ NoRlShell.op = "none"
      BY DEF NoRlShell
    <3>3. NotHardened.step = "restore" /\ NotHardened.op = rlShell.op
      BY <1>2, ShellFields DEF NotHardened
    <3> QED  BY <3>1, <3>2, <3>3
  <2>3. rlLive' \in {rlLive, rlFile}
    BY <1>6 DEF ReloadSsh
  <2>4. UNCHANGED <<rlWindow, rlFile, rlTimer, rlAuto>>
    BY <1>6 DEF ReloadSsh
  <2> QED
    BY <1>1, <1>6, <2>1, <2>2, <2>3, <2>4 DEF ReloadSsh
<1>7. CASE ConfirmHardening
  <2>1. rlShell'.step \in {"drop", "restore"} /\ rlShell'.op = "confirm"
    BY <1>7, ShellFields DEF ConfirmHardening, NoRlShell
  <2>2. KeyWorks /\ rlWindow.open /\ UNCHANGED <<rlWindow, rlFile, rlLive, rlTimer, rlAuto>>
    BY <1>7 DEF ConfirmHardening, KeyWorks
  <2> QED
    BY <1>1, <2>1, <2>2
<1>8. CASE DropAuthWindow
  BY <1>1, <1>2, <1>8 DEF DropAuthWindow, GoRl, NoAuthWindow,
      NoRlShell, ChangesKeys, LoginShells, LoginWindows
<1>9. CASE CancelAuthTimer
  BY <1>1, <1>2, <1>9 DEF CancelAuthTimer, GoRl, NoAuthWindow,
      NoRlShell, ChangesKeys, LoginShells, LoginWindows
<1>10. CASE BeginRollback
  BY <1>1, <1>2, <1>10 DEF BeginRollback, GoRl, NoAuthWindow,
      NoRlShell, ChangesKeys, LoginShells, LoginWindows
<1>11. CASE AuthTimerFires
  BY <1>1, <1>2, <1>11 DEF AuthTimerFires, GoRl, NoAuthWindow,
      NoRlShell, ChangesKeys, LoginShells, LoginWindows
<1>12. CASE RestoreDropin
  BY <1>1, <1>2, <1>12 DEF RestoreDropin, GoRl, NoAuthWindow,
      NoRlShell, ChangesKeys, LoginShells, LoginWindows
<1>13. CASE NothingToRestore
  <2>1. CASE rlShell' = NoRlShell /\ UNCHANGED rlAuto
    BY <1>1, <1>13, <2>1, ShellFields DEF NothingToRestore
  <2>2. CASE rlAuto' = "none" /\ UNCHANGED rlShell
    BY <1>1, <1>13, <2>2 DEF NothingToRestore
  <2> QED
    BY <1>13, <2>1, <2>2 DEF NothingToRestore
<1>14. CASE LoadRestored
  BY <1>1, <1>2, <1>14 DEF LoadRestored, GoRl, NoAuthWindow,
      NoRlShell, ChangesKeys, LoginShells, LoginWindows
<1>15. CASE DropRestored
  BY <1>1, <1>2, <1>15 DEF DropRestored, GoRl, NoAuthWindow,
      NoRlShell, ChangesKeys, LoginShells, LoginWindows
<1>16. CASE LoadFails
  <2>1. CASE rlShell' = NoRlShell /\ UNCHANGED rlAuto
    BY <1>1, <1>16, <2>1, ShellFields DEF LoadFails
  <2>2. CASE rlAuto' = "none" /\ UNCHANGED rlShell
    BY <1>1, <1>16, <2>2 DEF LoadFails
  <2> QED
    BY <1>16, <2>1, <2>2 DEF LoadFails
<1>17. CASE KillLoginCommand
  BY <1>1, <1>2, <1>17 DEF KillLoginCommand, GoRl, NoAuthWindow,
      NoRlShell, ChangesKeys, LoginShells, LoginWindows
<1>18. CASE RebootLogin
  BY <1>1, <1>2, <1>18 DEF RebootLogin, GoRl, NoAuthWindow,
      NoRlShell, ChangesKeys, LoginShells, LoginWindows
<1> QED
  BY <1>3, <1>4, <1>5, <1>6, <1>7, <1>8, <1>9, <1>10, <1>11, <1>12, <1>13, <1>14, <1>15, <1>16, <1>17, <1>18

(* Every step keeps the invariant of logging in. *)
LEMMA LoginStep ==
  ASSUME NoCommentedKeys, LoginInv, [LoginNext]_loginVars
  PROVE  LoginInv'
<1>1. LoginShapeInv'
  BY ShapeStep DEF LoginInv
<1>2. ASSUME ~rlRaced'
      PROVE  DeletionInv' /\ StrayInv' /\ ForbidInv'
  <2>1. ~rlRaced /\ (KeyWorks => KeyWorks')
    BY <1>2, WorksStays
  <2>2. CASE LoginNext
    BY <1>2, <2>1, <2>2, KeyChangeStep, HardeningStep DEF LoginNext
  <2>3. CASE UNCHANGED loginVars
    BY <2>1, <2>3 DEF loginVars, LoginInv, DeletionInv, StrayInv, ForbidInv, KeyWorks
  <2> QED
    BY <2>2, <2>3
<1> QED
  BY <1>1, <1>2 DEF LoginInv

(* The invariant of logging in holds in every reachable state. *)
THEOREM LoginInvariance ==
  ASSUME NoCommentedKeys
  PROVE  LoginSpec => []LoginInv
<1>1. LoginInv /\ [LoginNext]_loginVars => LoginInv'
  BY LoginStep
<1> QED
  BY LoginInitInv, <1>1, PTL DEF LoginSpec

(* While passwords are forbidden root has a key that works, or a window    *)
(* that can still be rolled back, unless one of the two races was lost.    *)
THEOREM RootIsNotLockedOut ==
  ASSUME NoCommentedKeys
  PROVE  LoginSpec => []RootCanLogin
<1>1. LoginInv => RootCanLogin
  BY DEF LoginInv, ForbidInv, RootCanLogin, KeyWorks
<1> QED
  BY LoginInvariance, <1>1, PTL

(* A key that a task is about to add or to delete is one of root's.        *)
KeysPending == rlPending \subseteq RootKeys

(* Types of the keys and of the hardening.                                 *)
THEOREM LoginTypesCorrect == LoginSpec => []LoginTypeOK
<1>1. LoginInit => LoginShapeInv /\ KeysPending
  BY LoginInitInv DEF KeysPending, LoginInit, LoginInv
<1>2. LoginShapeInv /\ KeysPending /\ [LoginNext]_loginVars
      => KeysPending'
  <2> SUFFICES ASSUME LoginShapeInv, KeysPending, [LoginNext]_loginVars
               PROVE  KeysPending'
    BY DEF KeysPending
  <2> USE DEF KeysPending
  <2>1. CASE \E op \in {"add", "delete"}, k \in RootKeys : PreviewKey(op, k)
    BY <2>1 DEF PreviewKey
  <2>2. CASE \E t \in rlTasks : ExecuteKey(t)
    BY <2>2 DEF ExecuteKey, LoginShapeInv, KeyChanges
  <2>3. CASE ReadAuthorizedKeys
    BY <2>3 DEF ReadAuthorizedKeys
  <2>4. CASE UNCHANGED rlPending
    BY <2>4
  <2>5. CASE \/ CheckKeys \/ WriteAuthorizedKeys \/ BeginHardening \/ WriteDropin
             \/ ArmAuthTimer \/ ReloadSsh \/ ConfirmHardening \/ DropAuthWindow
             \/ CancelAuthTimer \/ BeginRollback
    BY <2>4, <2>5 DEF CheckKeys, WriteAuthorizedKeys, BeginHardening, WriteDropin, ArmAuthTimer,
                      ReloadSsh, ConfirmHardening, DropAuthWindow, CancelAuthTimer,
                      BeginRollback, rlKeys
  <2>6. CASE \/ AuthTimerFires \/ RestoreDropin \/ NothingToRestore \/ LoadRestored \/ DropRestored
             \/ LoadFails \/ KillLoginCommand \/ RebootLogin
             \/ \E l \in AnyLine : EditAuthorizedKeys(l)
    BY <2>4, <2>6 DEF AuthTimerFires, RestoreDropin, NothingToRestore, LoadRestored,
                      DropRestored, LoadFails, KillLoginCommand, RebootLogin,
                      EditAuthorizedKeys, rlKeys
  <2>7. CASE UNCHANGED loginVars
    BY <2>4, <2>7 DEF loginVars
  <2> QED  BY <2>1, <2>2, <2>3, <2>5, <2>6, <2>7 DEF LoginNext
<1>3. LoginShapeInv /\ KeysPending => LoginTypeOK
  BY DEF KeysPending, LoginShapeInv, LoginTypeOK, LoginWindows
<1> QED  BY <1>1, <1>2, <1>3, ShapeStep, PTL DEF LoginSpec
=============================================================================
