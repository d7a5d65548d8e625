------------------------------ MODULE MCClient ------------------------------
EXTENDS Client
\* One device of each way the code talks to one: nothing encrypted, encrypted
\* with the credential hash, encrypted with a hash per request.
MCDevices == {{"RG"}, {"CERED"}, {"SGL1S2"}}
=============================================================================
