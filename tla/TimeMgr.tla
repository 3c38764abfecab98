------------------------------ MODULE TimeMgr ------------------------------
(****************************************************************************)
(* The timezone (ss_timemgr.c): set_timezone, an act of the run queue,      *)
(* replaces the symbolic link /opt/etc/localtime.  The old link is removed  *)
(* and a new one made, with two calls that may fail each.  Whether there is *)
(* a link to remove is asked with stat, which follows it.                   *)
(****************************************************************************)
(* The date (set_datetime) is one write of a key; the locks both acts take  *)
(* are in DeviceChange.                                                     *)
(****************************************************************************)
CONSTANT Zones  \* the zones clients ask for

NoZone == "none"

VARIABLES
    link,         \* the zone the link names, or NoZone: there is no link
    zone_files,   \* the zones whose file exists
    asked,        \* history: the zone of the last request, or NoZone
    unlinked,     \* history: in it, the old link could be removed if it is seen
    linked        \* history: and the new link could be made, if nothing was there

vars == <<link, zone_files, asked, unlinked, linked>>

TypeOK ==
    /\ {link, asked} \subseteq Zones \union {NoZone}
    /\ zone_files \subseteq Zones
    /\ {unlinked, linked} \subseteq BOOLEAN

Init ==
    /\ zone_files \in SUBSET Zones
    /\ link \in zone_files \union {NoZone}
    /\ asked = NoZone
    /\ unlinked = TRUE /\ linked = TRUE
----------------------------------------------------------------------------
(* stat finds the file of the zone the link names. *)
Resolves == link \in zone_files

(* Mutant: the old link is looked for when the new one has been made. *)
HandleTimezoneLinkFirst(zone) ==
    /\ asked' = zone
    /\ unlinked' \in BOOLEAN /\ linked' \in BOOLEAN
    /\ link' = IF linked' /\ link = NoZone THEN zone
               ELSE IF Resolves /\ unlinked' THEN NoZone ELSE link
    /\ UNCHANGED zone_files

(* handle_timezone: the old link is removed if stat finds anything, and then *)
(* the new one is made, if none is in the way.  Both calls may fail.         *)
HandleTimezone(zone) ==
    /\ asked' = zone
    /\ unlinked' \in BOOLEAN /\ linked' \in BOOLEAN
    /\ link' = IF Resolves /\ ~unlinked' THEN link
               ELSE IF Resolves \/ link = NoZone
                    THEN IF linked' THEN zone ELSE NoZone
               ELSE link
    /\ UNCHANGED zone_files

(* Files of zones come and go with the package that holds them. *)
ZoneFile(zone) ==
    /\ zone_files' = IF zone \in zone_files THEN zone_files \ {zone}
                     ELSE zone_files \union {zone}
    /\ UNCHANGED <<link, asked, unlinked, linked>>

Next == \E zone \in Zones : HandleTimezone(zone) \/ ZoneFile(zone)

Spec == Init /\ [][Next]_vars
----------------------------------------------------------------------------
(* A request during which no call fails takes effect, whatever the requests *)
(* before it have left behind: also a link that names the same zone, and no *)
(* link at all after one has failed between removing the old link and       *)
(* making the new one.  The exception is a link to a file that is gone      *)
(* meanwhile: stat does not see it, symlink does, and it stays.             *)
RequestTakesEffect ==
    [][UNCHANGED zone_files /\ unlinked' /\ linked' =>
          link' = asked' \/ (link \in Zones \ zone_files /\ link' = link)]_vars
=============================================================================
