----------------------------- MODULE MCCredentials -----------------------------
EXTENDS Credentials
CrMix(actions, handlers, until) == [actions |-> actions, handlers |-> handlers, until |-> until]
MCCrMixes == {
  CrMix({"share", "revoke", "label", "request", "load", "restart"}, 5, 0),
  CrMix({"exchange", "refresh", "revoke", "cleanup"}, 4, 3),
  CrMix({"keys", "own", "exchange", "deactivate", "request"}, 3, 3),
  CrMix({"link", "verify", "request", "cleanup", "deactivate", "restart"}, 4, 2),
  CrMix({"exchange", "link"}, 4, 3)}
=============================================================================
