---------------------------- MODULE MCDelegates ----------------------------
(* The components about delegates, one to a behaviour: they share no table  *)
(* that two of them change, so their state spaces add up.                  *)
EXTENDS Tokens, Codes, Accounts, Network, Discussions, SessionRecords, Announcements,
        Access, Certificates, LiveOps, Reveal

CONSTANT Scenes

VARIABLE scene

Components == {"tokens", "codes", "accounts", "network", "discussions", "records",
               "announcements", "access", "certificates", "liveops", "reveal"}

ASSUME ScenesAreComponents == Scenes \subseteq Components

Needed == [s \in Steps |-> IF s = "connections" THEN 2 ELSE 1]

vars == <<scene, tokensVars, codesVars, accountsVars, networkVars, discussionsVars, recordsVars,
          announcementsVars, accessVars, certificateVars, liveOpsVars, revealVars>>

(* Where nothing is claimed of requests that overlap, none do.              *)
Overlapping == {"codes", "announcements", "access", "certificates", "liveops", "reveal"}

Init ==
  /\ scene \in Scenes
  /\ TokensInit /\ CodesInit /\ AccountsInit /\ NetworkInit
  /\ DiscussionsInit /\ SessionRecordsInit /\ AnnouncementsInit
  /\ AccessInit /\ CertificatesInit /\ LiveOpsInit /\ RevealInit
  /\ regime = "shared" => scene \in Overlapping
  /\ scene # "access" => role = "standard"
  /\ scene # "announcements" => apple = {}
  /\ scene # "certificates" => required
  /\ scene # "liveops" => alone
  /\ scene # "reveal" => united

Plays(s, A) == scene = s /\ A /\ UNCHANGED scene

Next ==
  \/ /\ Plays("tokens", TokensNext)
     /\ UNCHANGED <<codesVars, accountsVars, networkVars, discussionsVars, recordsVars, announcementsVars, accessVars, certificateVars, liveOpsVars, revealVars>>
  \/ /\ Plays("codes", CodesNext)
     /\ UNCHANGED <<tokensVars, accountsVars, networkVars, discussionsVars, recordsVars, announcementsVars, accessVars, certificateVars, liveOpsVars, revealVars>>
  \/ /\ Plays("accounts", AccountsNext)
     /\ UNCHANGED <<tokensVars, codesVars, networkVars, discussionsVars, recordsVars, announcementsVars, accessVars, certificateVars, liveOpsVars, revealVars>>
  \/ /\ Plays("network", NetworkNext)
     /\ UNCHANGED <<tokensVars, codesVars, accountsVars, discussionsVars, recordsVars, announcementsVars, accessVars, certificateVars, liveOpsVars, revealVars>>
  \/ /\ Plays("discussions", DiscussionsNext)
     /\ UNCHANGED <<tokensVars, codesVars, accountsVars, networkVars, recordsVars, announcementsVars, accessVars, certificateVars, liveOpsVars, revealVars>>
  \/ /\ Plays("records", SessionRecordsNext)
     /\ UNCHANGED <<tokensVars, codesVars, accountsVars, networkVars, discussionsVars, announcementsVars, accessVars, certificateVars, liveOpsVars, revealVars>>
  \/ /\ Plays("announcements", AnnouncementsNext)
     /\ UNCHANGED <<tokensVars, codesVars, accountsVars, networkVars, discussionsVars, recordsVars, accessVars, certificateVars, liveOpsVars, revealVars>>
  \/ /\ Plays("access", AccessNext)
     /\ UNCHANGED <<tokensVars, codesVars, accountsVars, networkVars, discussionsVars, recordsVars, announcementsVars, certificateVars, liveOpsVars, revealVars>>
  \/ /\ Plays("certificates", CertificatesNext)
     /\ UNCHANGED <<tokensVars, codesVars, accountsVars, networkVars, discussionsVars, recordsVars, announcementsVars, accessVars, liveOpsVars, revealVars>>
  \/ /\ Plays("liveops", LiveOpsNext)
     /\ UNCHANGED <<tokensVars, codesVars, accountsVars, networkVars, discussionsVars, recordsVars, announcementsVars, accessVars, certificateVars, revealVars>>
  \/ /\ Plays("reveal", RevealNext)
     /\ UNCHANGED <<tokensVars, codesVars, accountsVars, networkVars, discussionsVars, recordsVars, announcementsVars, accessVars, certificateVars, liveOpsVars>>

Spec == Init /\ [][Next]_vars

(* Every component is in a state of its types.                              *)
TypeOK ==
  /\ scene \in Scenes
  /\ TokensTypeOK /\ CodesTypeOK /\ AccountsTypeOK /\ NetworkTypeOK
  /\ DiscussionsTypeOK /\ SessionRecordsTypeOK /\ AnnouncementsTypeOK
  /\ AccessTypeOK /\ CertificatesTypeOK /\ LiveOpsTypeOK /\ RevealTypeOK
=============================================================================
