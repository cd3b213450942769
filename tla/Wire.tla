--------------------------------- MODULE Wire ---------------------------------
(***************************************************************************)
(* What the programs put on the wire: the operation codes and the packets  *)
(* of src/lib/common.c and src/lib/common.h.  A byte is a number of        *)
(* 0..255, a Short an unsigned short; a text is the sequence of its bytes, *)
(* without a terminator.                                                   *)
(***************************************************************************)
EXTENDS Integers, Sequences

Byte  == 0..255
Short == {n \in Nat : n < 65536}

(* Operation codes are unsigned shorts.  OP_RESPONSE flips the highest bit. *)

OP_PETICION_ID     == 1
OP_PETICION_REG    == 2
OP_CONCESION_ID    == 3
OP_CONCESION_REG   == 4
OP_PETICION_REC    == 5
OP_LOCALIZADOR_REC == 6

OP_SOLICITUD_CONEXION == 7
OP_CONCESION_CONEXION == 8

OP_CONECTAR    == 9
OP_BLOQUEAR    == 11
OP_BORRAR      == 12
OP_BUSCAR      == 13
OP_CAMBIARCLAVE == 14
OP_CREAR       == 16
OP_DESBLOQUEAR == 17
OP_LISTAR      == 18
OP_SALIR       == 19
OP_UNKNOW      == 20
OP_COMMIT      == 21
OP_ROLLBACK    == 22
ERROR          == 65535

OP_RESPONSE(op) == (op + 32768) % 65536

-----------------------------------------------------------------------------
(* Numbers in network order, and the packets of a session: the code, the   *)
(* length of the text, the text.                                           *)

htons(n)     == <<(n \div 256) % 256, n % 256>>
ntohs(bytes) == 256 * bytes[1] + bytes[2]

paquete_men(op, data) == htons(op) \o htons(Len(data)) \o data
=============================================================================
