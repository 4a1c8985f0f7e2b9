------------------------------- MODULE MCSurvey -------------------------------
(* A surveyor and, behind a device, a respondent that serves another       *)
(* surveyor too.                                                           *)
EXTENDS Survey

CONSTANTS sv, dev, r, x

MCConns == {"near", "far", "other"}
MCFrom == [near |-> sv, far |-> dev, other |-> x]
MCTo == [near |-> dev, far |-> r, other |-> r]

ASSUME OneWay == OnePath
=============================================================================
