----------------------------- MODULE MCBackoffice -----------------------------
(***************************************************************************)
(* A product of a category that the user may read, or with the one that    *)
(* they may write before it; others may write all, or nothing.             *)
(***************************************************************************)
EXTENDS Backoffice

CONSTANTS lamp, kitchen, garden, uncategorized

MCListed == {<<kitchen>>, <<garden, kitchen>>}
MCListings == MCListed \cup {<<uncategorized>>}

SomeGroups ==
  {{}, {Admins}, {Viewing(kitchen), Managing(garden)}}

SomeSubscriptions == {{kitchen}}
=============================================================================
