-------------------------- MODULE MCInvitationMail --------------------------
\* Instances of InvitationMail for TLC.
EXTENDS InvitationMail
=============================================================================
