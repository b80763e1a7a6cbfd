--------------------------- MODULE MCPrivacyIngest ---------------------------
\* Two people, one session each: the first one logs in during the visit, and shares a batch with the second.
EXTENDS PrivacyIngest
CONSTANTS s1, s2, s3, v1, v2, h1

L(g, s, v, i) == [genre |-> g, session |-> s, claim |-> Aucun, visiteur |-> v, identite |-> i]
Lot(sig, ls) == [signal |-> sig, lignes |-> ls]

Anonyme == Lot("traces", {L("session", s1, v1, Aucun), L("page", s1, Aucun, Aucun)})
Mixte == Lot("traces", {L("session", s1, v1, h1), L("evenement", s1, Aucun, h1), L("page", s1, Aucun, h1),
                        L("session", s2, v2, Aucun), L("page", s2, Aucun, Aucun)})
Journal == Lot("logs", {L("journal", s1, Aucun, Aucun), L("erreur", Aucun, Aucun, h1)})
Rejeu == Lot("rejeu", {L("rejeu", s1, Aucun, Aucun)})
Sente == {Anonyme, Mixte, Journal, Rejeu}
\* The hypotheses of the theorems are met by these rows.
ASSUME HypothesesTenues == Signaux = Sente => SansReprise /\ Accompagnees /\ UnSujet

\* An agent without session, which knows the user.
SansSession == Lot("traces", {L("evenement", Aucun, Aucun, h1)})
Agent == {Anonyme, SansSession}

\* The first person comes back, in a session s2 that the second one's batch carries, and logs go on.
Retour == Lot("traces", {L("session", s2, v1, Aucun), L("page", s2, Aucun, Aucun),
                         L("session", s3, v2, Aucun), L("page", s3, Aucun, Aucun)})
Visites == {Anonyme, Retour, Lot("logs", {L("journal", s2, Aucun, Aucun)})}

LesSujets == {<<"visitor", v1>>, <<"user", h1>>}
=============================================================================
