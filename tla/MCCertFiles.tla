---------------------------- MODULE MCCertFiles ----------------------------
(***************************************************************************)
(* Small instances of CertFiles.  The code writes domain.pem, rootCA.pem,  *)
(* rootCA-key.pem, tls.crt and tls.key in this order; of the files that a  *)
(* backend does not read one, between the two that it reads, is kept.      *)
(***************************************************************************)
EXTENDS CertFiles

ThreeFiles == <<"domain.pem", "rootCA.pem", "tls.key">>
OneBackend == {"reencrypt-0"}
OneGenerator == {"gen-proxy-config"}
OneStray == {"second"}
ItsBundle == [w \in OneStray |-> 9]
Breaks == {"break"}
=============================================================================
