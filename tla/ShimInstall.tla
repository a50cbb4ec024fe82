---------------------------- MODULE ShimInstall ----------------------------
(***************************************************************************)
(* Putting the RomM sync layer on a card and taking it off again           *)
(* (paks/Lodor.pak: install.sh, uninstall.sh and the auto.sh self-heal of  *)
(* bin/romm-syncd), with the boots that run these scripts and the Wifi     *)
(* pak, which edits the same auto.sh.                                      *)
(*                                                                         *)
(* Each step is one effect on the card.  A file written beside its target  *)
(* and moved over it (`> X.new && mv X.new X') is one step: nobody reads   *)
(* X.new, and a rename is atomic.  One script runs at a time.  A line of   *)
(* auto.sh is the set of commands on it: two of them when a line was       *)
(* appended to a file that does not end in a newline.                      *)
(***************************************************************************)
EXTENDS Naturals, FiniteSets, SequencesExt

CONSTANTS
    Kinds,      \* how the card comes: subset of {"stock", "built", "partial", "lost"}
    Updates,    \* BOOLEAN: self-updates get staged
    Faults,     \* subset of {"yank", "tear", "full"}
    NoFile,     \* the path does not exist
    Stock,      \* bytes: the stock minarch binary
    Shim,       \* bytes: minarch-shim.sh
    Torn        \* bytes: truncated

ASSUME KindsAssumption ==
    /\ Kinds \subseteq {"stock", "built", "partial", "lost"}
    /\ Updates \in BOOLEAN
    /\ Faults \subseteq {"yank", "tear", "full"}

ASSUME ContentAssumption ==
    /\ NoFile \notin {Stock, Shim, Torn}
    /\ Stock \notin {Shim, Torn}
    /\ Shim # Torn

Content == {NoFile, Stock, Shim, Torn}

VARIABLES
    pc,         \* where the running script is; "live": none runs; "off"
    by,         \* who started it: "user" by hand, "boot" from auto.sh
    elf,        \* .system/<plat>/bin/minarch.elf, what every game launch runs
    real,       \* minarch.real.elf
    bak,        \* minarch.elf.stock-bak
    auto,       \* the lines of .userdata/<plat>/auto.sh, or NoFile
    nl,         \* auto.sh ends in a newline
    staged      \* a verified self-update waits in .update

binaries == <<elf, real, bak>>
hooks    == <<auto, nl>>
vars     == <<pc, by, binaries, hooks, staged>>

PC == {"live", "off", "check", "bak", "swap", "create", "syncd", "apply",
       "clear", "heal", "healed", "un_elf", "un_line"}

Command == {"user", "wifi", "apply", "syncd"}
Line    == (SUBSET Command) \ {{}}

ASSUME FileAssumption == NoFile \notin Seq(Line)

Has(a, c) == a # NoFile /\ \E i \in DOMAIN a : c \in a[i]

TypeOK ==
    /\ pc \in PC
    /\ by \in {"user", "boot"}
    /\ {elf, real, bak} \subseteq Content
    /\ auto = NoFile \/ auto \in Seq(Line)
    /\ nl \in BOOLEAN /\ staged \in BOOLEAN

\* The ways a card can come to these scripts: stock MinUI, an image built with
\* the layer, a partial install that had moved the binary, and a card that
\* lost minarch.real.elf.
Card(kind) ==
    CASE kind = "stock"   -> {<<Stock, NoFile, NoFile>>}
      [] kind = "built"   -> {<<Shim, Stock, NoFile>>, <<Shim, Stock, Stock>>}
      [] kind = "partial" -> {<<NoFile, Stock, NoFile>>}
      [] kind = "lost"    -> {<<Shim, NoFile, Stock>>, <<Shim, NoFile, NoFile>>}

\* auto.sh: none, the owner's own, from before the applier's hook, and built.
Scripts(kind) ==
    {NoFile, <<{"user"}>>} \cup
    IF kind = "stock" THEN {}
    ELSE {<<{"syncd"}, {"user"}>>, <<{"user"}, {"syncd"}>>,
          <<{"apply"}, {"syncd"}>>}

Init ==
    /\ pc = "live" /\ by = "user"
    /\ \E kind \in Kinds : \E c \in Card(kind) :
         /\ elf = c[1] /\ real = c[2] /\ bak = c[3]
         /\ auto \in Scripts(kind)
    /\ nl \in {TRUE, auto = NoFile \/ Last(auto) # {"user"}}
    /\ staged = FALSE

\* grep -q ROMM_MINARCH_SHIM: what is left of a torn file may hold the marker.
Marked(c) == IF c = Torn THEN BOOLEAN ELSE {c = Shim}

\* What cp leaves at its target; its exit status is never looked at.
Copied(c) == IF "full" \in Faults THEN {c, Torn} ELSE {c}

Lines(a) == IF a = NoFile THEN <<>> ELSE a

\* sed and awk: the lines of a at these places, in their order.
Before(places, i) == Cardinality({j \in places : j < i})
Only(a, places) ==
    [n \in 1..Cardinality(places) |->
        a[CHOOSE i \in places : Before(places, i) = n - 1]]

\* Where a has none of these commands.
Without(a, cmds) == {i \in DOMAIN a : a[i] \cap cmds = {}}

\* awk: the applier's line goes above the first line that starts the daemon.
Above(a, line) ==
    InsertAt(a, CHOOSE i \in DOMAIN a : /\ "syncd" \in a[i]
                                       /\ \A j \in 1..i - 1 : "syncd" \notin a[j], line)

\* A line appended with a bare `>>'.
Glued(a, line) ==
    IF a = <<>> \/ nl THEN Append(a, line)
    ELSE Front(a) \o <<Last(a) \cup line>>

-----------------------------------------------------------------------------
(* install.sh                                                              *)

\* By hand from the live system; the boot applier and the daemon's heal call
\* it through Install("boot").
Install(who) == pc' = "check" /\ by' = who

RunInstall ==
    /\ pc = "live"
    /\ Install("user")
    /\ UNCHANGED <<binaries, hooks, staged>>

\* No caller looks at the exit status.
InstallExits == pc' = IF by = "boot" THEN "clear" ELSE "live"

\* No minarch at all, or a shim whose stock binary is gone.
Refuse ==
    /\ pc = "check" /\ real = NoFile
    /\ elf = NoFile \/ TRUE \in Marked(elf)
    /\ InstallExits
    /\ UNCHANGED <<by, binaries, hooks, staged>>

KeepReal ==
    /\ pc = "check" /\ real # NoFile
    /\ pc' = "swap"
    /\ UNCHANGED <<by, binaries, hooks, staged>>

\* Wrong: the marker is not looked for before saving "the stock binary".
SaveAnything ==
    /\ pc = "check" /\ real = NoFile
    /\ elf # NoFile
    /\ real' \in Copied(elf)
    /\ pc' = "bak"
    /\ UNCHANGED <<by, elf, bak, hooks, staged>>

\* Wrong: the stock binary is moved away instead of copied.
MoveReal ==
    /\ pc = "check" /\ real = NoFile
    /\ elf # NoFile /\ FALSE \in Marked(elf)
    /\ real' = elf /\ elf' = NoFile
    /\ pc' = "bak"
    /\ UNCHANGED <<by, bak, hooks, staged>>

SaveReal ==
    /\ pc = "check" /\ real = NoFile
    /\ elf # NoFile /\ FALSE \in Marked(elf)
    /\ real' \in Copied(elf)
    /\ pc' = "bak"
    /\ UNCHANGED <<by, elf, bak, hooks, staged>>

SaveBak ==
    /\ pc = "bak"
    /\ bak' \in Copied(elf)
    /\ pc' = "swap"
    /\ UNCHANGED <<by, elf, real, hooks, staged>>

\* cp to minarch.elf.new and mv: the mv does not wait for a good cp.
SwapShim ==
    /\ pc = "swap"
    /\ elf' \in Copied(Shim)
    /\ pc' = "create"
    /\ UNCHANGED <<by, real, bak, hooks, staged>>

\* Wrong: an auto.sh that exists is created again.
CreateAlways ==
    /\ pc = "create"
    /\ auto' = <<>>
    /\ nl' = TRUE
    /\ pc' = "syncd"
    /\ UNCHANGED <<by, binaries, staged>>

CreateAuto ==
    /\ pc = "create"
    /\ auto' = Lines(auto)
    /\ nl' = (nl \/ auto = NoFile)
    /\ pc' = "syncd"
    /\ UNCHANGED <<by, binaries, staged>>

\* The two hook lines: each is skipped, or written, or fails with exit 1.
HookFails ==
    /\ "full" \in Faults
    /\ \/ pc = "syncd" /\ ~Has(auto, "syncd")
       \/ pc = "apply" /\ ~Has(auto, "apply")
    /\ InstallExits
    /\ UNCHANGED <<by, binaries, hooks, staged>>

AddSyncd ==
    /\ pc = "syncd"
    /\ auto' = IF Has(auto, "syncd") THEN auto ELSE Append(auto, {"syncd"})
    /\ nl' = (nl \/ auto' # auto)
    /\ pc' = "apply"
    /\ UNCHANGED <<by, binaries, staged>>

\* Wrong: the applier's line is appended, like the daemon's.
AddApplyLast ==
    /\ pc = "apply"
    /\ auto' = IF Has(auto, "apply") THEN auto ELSE Append(auto, {"apply"})
    /\ nl' = (nl \/ auto' # auto)
    /\ InstallExits
    /\ UNCHANGED <<by, binaries, staged>>

AddApply ==
    /\ pc = "apply"
    /\ auto' = IF Has(auto, "apply") THEN auto
               ELSE IF Has(auto, "syncd") THEN Above(auto, {"apply"})
               ELSE Append(auto, {"apply"})
    /\ nl' = (nl \/ auto' # auto)
    /\ InstallExits
    /\ UNCHANGED <<by, binaries, staged>>

-----------------------------------------------------------------------------
(* uninstall.sh, run by hand.                                              *)

RunUninstall ==
    /\ pc = "live"
    /\ pc' = "un_elf" /\ by' = "user"
    /\ UNCHANGED <<binaries, hooks, staged>>

RestoreStock ==
    /\ pc = "un_elf" /\ pc' = "un_line"
    /\ \/ FALSE \in Marked(elf) /\ UNCHANGED <<elf, real>>
       \/ /\ TRUE \in Marked(elf)
          /\ \/ real # NoFile /\ elf' = real /\ real' = NoFile
             \/ /\ real = NoFile /\ bak # NoFile
                /\ elf' \in Copied(bak) /\ UNCHANGED real
             \/ real = NoFile /\ bak = NoFile /\ UNCHANGED <<elf, real>>
    /\ UNCHANGED <<by, bak, hooks, staged>>

\* sed -i drops the daemon's line; the applier's line stays.
RemoveSyncd ==
    /\ pc = "un_line"
    /\ auto' = IF Has(auto, "syncd")
               THEN Only(auto, Without(auto, {"syncd"})) ELSE auto
    /\ pc' = "live"
    /\ UNCHANGED <<by, binaries, nl, staged>>

-----------------------------------------------------------------------------
(* Boots, and heal_auto_sh in a starting romm-syncd.                       *)

StartDaemon(who) == pc' = "heal" /\ by' = who

\* MinUI runs auto.sh: the applier, then the daemon (its heal then finds the
\* applier's line and does nothing).
Boot ==
    /\ pc = "off"
    /\ \/ Has(auto, "apply") /\ staged /\ Install("boot")
       \/ ~(Has(auto, "apply") /\ staged) /\ Has(auto, "syncd") /\ StartDaemon("boot")
       \/ ~(Has(auto, "apply") /\ staged) /\ ~Has(auto, "syncd") /\ pc' = "live" /\ UNCHANGED by
    /\ UNCHANGED <<binaries, hooks, staged>>

RestartDaemon ==
    /\ pc = "live"
    /\ StartDaemon("user")
    /\ UNCHANGED <<binaries, hooks, staged>>

HealHooked ==
    /\ pc = "heal" /\ Has(auto, "apply")
    /\ pc' = "live"
    /\ UNCHANGED <<by, binaries, hooks, staged>>

HealFails ==
    /\ pc = "heal" /\ ~Has(auto, "apply")
    /\ "full" \in Faults
    /\ pc' = "live"
    /\ UNCHANGED <<by, binaries, hooks, staged>>

\* Wrong: healed whether or not the line is there already.
HealAgain ==
    /\ pc = "heal"
    /\ auto' = IF auto = NoFile THEN <<{"apply"}, {"syncd"}>>
               ELSE IF Has(auto, "syncd") THEN Above(auto, {"apply"})
               ELSE Append(auto, {"apply"})
    /\ nl' = TRUE
    /\ pc' = "healed"
    /\ UNCHANGED <<by, binaries, staged>>

Heal ==
    /\ pc = "heal" /\ ~Has(auto, "apply")
    /\ auto' = IF auto = NoFile THEN <<{"apply"}, {"syncd"}>>
               ELSE IF Has(auto, "syncd") THEN Above(auto, {"apply"})
               ELSE Append(auto, {"apply"})
    /\ nl' = TRUE
    /\ pc' = "healed"
    /\ UNCHANGED <<by, binaries, staged>>

\* Wrong: the healed card waits for its next boot.
NoHandOff ==
    /\ pc = "healed"
    /\ pc' = "live" /\ UNCHANGED by
    /\ UNCHANGED <<binaries, hooks, staged>>

\* A staging that waits already is applied now, unless a game runs (which one
\* cannot at boot).
HandOff ==
    /\ pc = "healed"
    /\ \/ staged /\ Install("boot")
       \/ (staged => by = "user") /\ pc' = "live" /\ UNCHANGED by
    /\ UNCHANGED <<binaries, hooks, staged>>

\* lodor-apply-update after install.sh: rm -rf "$UPD" (module SelfUpdate).
ClearStaging ==
    /\ pc = "clear"
    /\ staged' = FALSE
    /\ pc' = "live"
    /\ UNCHANGED <<by, binaries, hooks>>

-----------------------------------------------------------------------------
(* The rest of the system.                                                 *)

\* Update Lodor.pak: an update is downloaded and verified.
Stage ==
    /\ pc = "live" /\ Updates /\ ~staged
    /\ staged' = TRUE
    /\ UNCHANGED <<pc, by, binaries, hooks>>

\* Wifi.pak, "start on boot" on: `echo >> auto.sh', with no newline guard.
WifiOn ==
    /\ pc = "live" /\ ~Has(auto, "wifi")
    /\ auto' = Glued(Lines(auto), {"wifi"})
    /\ nl' = TRUE
    /\ UNCHANGED <<pc, by, binaries, staged>>

\* ... and off: sed -i.
WifiOff ==
    /\ pc = "live" /\ Has(auto, "wifi")
    /\ auto' = Only(auto, Without(auto, {"wifi"}))
    /\ UNCHANGED <<pc, by, binaries, nl, staged>>

PowerOff ==
    /\ pc = "live" \/ (pc # "off" /\ "yank" \in Faults)
    /\ pc' = "off"
    /\ UNCHANGED <<by, binaries, hooks, staged>>

\* Power lost in the middle of a cp: SaveReal, SaveBak, or RestoreStock's.
TearCopy ==
    /\ "tear" \in Faults
    /\ \/ /\ pc = "check" /\ real = NoFile
          /\ elf # NoFile /\ FALSE \in Marked(elf)
          /\ real' = Torn /\ UNCHANGED <<elf, bak>>
       \/ pc = "bak" /\ bak' = Torn /\ UNCHANGED <<elf, real>>
       \/ /\ pc = "un_elf" /\ TRUE \in Marked(elf)
          /\ real = NoFile /\ bak # NoFile
          /\ elf' = Torn /\ UNCHANGED <<real, bak>>
    /\ pc' = "off"
    /\ UNCHANGED <<by, hooks, staged>>

\* What a script does next, once started.
Script ==
    \/ Refuse \/ KeepReal \/ SaveReal \/ SaveBak \/ SwapShim
    \/ CreateAuto \/ AddSyncd \/ AddApply \/ HookFails
    \/ RestoreStock \/ RemoveSyncd
    \/ HealHooked \/ HealFails \/ Heal \/ HandOff \/ ClearStaging

User == RunInstall \/ RunUninstall \/ RestartDaemon \/ Stage \/ WifiOn \/ WifiOff

Next == Script \/ User \/ Boot \/ PowerOff \/ TearCopy

Spec == Init /\ [][Next]_vars

\* A script runs to its end unless the power goes, and not every run of it is
\* cut short at the same step; a card that is off is booted again.
FairSpec ==
    /\ Spec
    /\ WF_vars(Boot)
    /\ \A p \in PC \ {"live", "off", "un_elf", "un_line"} :
         SF_vars(pc = p /\ Script)

-----------------------------------------------------------------------------
(* Properties                                                              *)

\* A game starts: the stock binary, or the shim in front of it.
Launches == elf = Stock \/ (elf = Shim /\ real = Stock)

\* No step of any script, and no power loss, takes a card on which games
\* start to one where they do not.
GamesKeepLaunching == [][Launches => Launches']_vars

\* Some file still has the stock minarch, which nothing here can download.
StockOnCard == Stock \in {elf, real, bak}
StockNeverLost == [][StockOnCard => StockOnCard']_vars

\* The applier runs before the daemon that would execute the engine it swaps.
ApplierBeforeDaemon ==
    auto # NoFile =>
        \A i, j \in DOMAIN auto :
            "apply" \in auto[i] /\ "syncd" \in auto[j] => i < j

\* Reboots, heals and reinstalls never pile up hooks, and a hook that a grep
\* finds is a command of its own: it was not glued to somebody else's line.
HooksOnceAndAlone ==
    auto # NoFile =>
        \A i, j \in DOMAIN auto : \A c \in {"apply", "syncd"} :
            /\ c \in auto[i] /\ c \in auto[j] => i = j
            /\ c \in auto[i] => auto[i] = {c}

\* The commands that are not ours, in the order they run.
Foreign(a) == Only(Lines(a), DOMAIN Lines(a) \ Without(Lines(a), {"user", "wifi"}))

\* Our scripts keep the other commands of auto.sh as they are; only the Wifi
\* pak's switch (from the live system) changes them.
ForeignLinesKept == [][pc # "live" => Foreign(auto') = Foreign(auto)]_vars

\* A staged update on a card that starts only the daemon (built before the
\* applier's hook) is installed once that card is booted.
StagedUpdateInstalls == (pc = "off" /\ staged /\ Has(auto, "syncd")) ~> ~staged
=============================================================================
