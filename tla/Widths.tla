-------------------------------- MODULE Widths --------------------------------
(* The values of C's unsigned types, for the programs that compute with them.  *)
EXTENDS Integers

MaxOctet == 255
MaxWord == 65535

Octets == 0 .. MaxOctet   \* uint8_t
Words == 0 .. MaxWord     \* uint16_t
=============================================================================
