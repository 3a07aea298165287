--------------------------- MODULE MCOAuthConnector ---------------------------
(* OAuthConnector on a small instance.                                      *)
EXTENDS OAuthConnector

=============================================================================
