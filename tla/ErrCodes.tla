------------------------------- MODULE ErrCodes -------------------------------
(***************************************************************************)
(* Error codes and their texts: sc_strerror (src/src/sc.c), buv_strerror   *)
(* and its table (src/src/backend_uv.c), and the numbers behind the names  *)
(* of libuv, which depend on the platform (uv.h and uv/errno.h of libuv).  *)
(*                                                                         *)
(* A platform is known by its kind and by the names its <errno.h> does not *)
(* have.  That header is external: its numbers differ, no one is a number  *)
(* that libuv made up, and 64 is EHOSTDOWN on BSD, as uv/errno.h says.     *)
(***************************************************************************)
EXTENDS Integers, Sequences, FiniteSets, Functions

CONSTANTS
  Platforms,  \* records [kind, missing]
  errno,      \* external: the numbers of <errno.h> where EDOM > 0
  negative,   \* external: the numbers of <errno.h> where EDOM < 0
  OtherCodes  \* numbers that are no error codes

VARIABLES
  platform,
  asked,  \* the number given to sc_strerror, or 0
  text    \* what it returned, by the name of the error

errVars == <<platform, asked, text>>

-----------------------------------------------------------------------------
(* The tables.                                                             *)

UV_ERRNO_MAP ==
  {"E2BIG", "EACCES", "EADDRINUSE", "EADDRNOTAVAIL", "EAFNOSUPPORT", "EAGAIN",
   "EAI_ADDRFAMILY", "EAI_AGAIN", "EAI_BADFLAGS", "EAI_BADHINTS",
   "EAI_CANCELED", "EAI_FAIL", "EAI_FAMILY", "EAI_MEMORY", "EAI_NODATA",
   "EAI_NONAME", "EAI_OVERFLOW", "EAI_PROTOCOL", "EAI_SERVICE",
   "EAI_SOCKTYPE", "EALREADY", "EBADF", "EBUSY", "ECANCELED", "ECHARSET",
   "ECONNABORTED", "ECONNREFUSED", "ECONNRESET", "EDESTADDRREQ", "EEXIST",
   "EFAULT", "EFBIG", "EHOSTUNREACH", "EINTR", "EINVAL", "EIO", "EISCONN",
   "EISDIR", "ELOOP", "EMFILE", "EMSGSIZE", "ENAMETOOLONG", "ENETDOWN",
   "ENETUNREACH", "ENFILE", "ENOBUFS", "ENODEV", "ENOENT", "ENOMEM", "ENONET",
   "ENOPROTOOPT", "ENOSPC", "ENOSYS", "ENOTCONN", "ENOTDIR", "ENOTEMPTY",
   "ENOTSOCK", "ENOTSUP", "EOVERFLOW", "EPERM", "EPIPE", "EPROTO",
   "EPROTONOSUPPORT", "EPROTOTYPE", "ERANGE", "EROFS", "ESHUTDOWN", "ESPIPE",
   "ESRCH", "ETIMEDOUT", "ETXTBSY", "EXDEV", "UNKNOWN", "EOF", "ENXIO",
   "EMLINK", "EHOSTDOWN", "EREMOTEIO", "ENOTTY", "EFTYPE", "EILSEQ",
   "ESOCKTNOSUPPORT"}

UV__Fixed ==
  [EOF |-> -4095, UNKNOWN |-> -4094, EAI_ADDRFAMILY |-> -3000,
   EAI_AGAIN |-> -3001, EAI_BADFLAGS |-> -3002, EAI_CANCELED |-> -3003,
   EAI_FAIL |-> -3004, EAI_FAMILY |-> -3005, EAI_MEMORY |-> -3006,
   EAI_NODATA |-> -3007, EAI_NONAME |-> -3008, EAI_OVERFLOW |-> -3009,
   EAI_SERVICE |-> -3010, EAI_SOCKTYPE |-> -3011, EAI_BADHINTS |-> -3013,
   EAI_PROTOCOL |-> -3014]

UV__Fallback_1 ==
  [E2BIG |-> -4093, EACCES |-> -4092, EADDRINUSE |-> -4091,
   EADDRNOTAVAIL |-> -4090, EAFNOSUPPORT |-> -4089, EAGAIN |-> -4088,
   EALREADY |-> -4084, EBADF |-> -4083, EBUSY |-> -4082, ECANCELED |-> -4081,
   ECHARSET |-> -4080, ECONNABORTED |-> -4079, ECONNREFUSED |-> -4078,
   ECONNRESET |-> -4077, EDESTADDRREQ |-> -4076, EEXIST |-> -4075,
   EFAULT |-> -4074, EHOSTUNREACH |-> -4073, EINTR |-> -4072,
   EINVAL |-> -4071, EIO |-> -4070, EISCONN |-> -4069, EISDIR |-> -4068,
   ELOOP |-> -4067, EMFILE |-> -4066]

UV__Fallback_2 ==
  [EMSGSIZE |-> -4065, ENAMETOOLONG |-> -4064, ENETDOWN |-> -4063,
   ENETUNREACH |-> -4062, ENFILE |-> -4061, ENOBUFS |-> -4060,
   ENODEV |-> -4059, ENOENT |-> -4058, ENOMEM |-> -4057, ENONET |-> -4056,
   ENOSPC |-> -4055, ENOSYS |-> -4054, ENOTCONN |-> -4053, ENOTDIR |-> -4052,
   ENOTEMPTY |-> -4051, ENOTSOCK |-> -4050, ENOTSUP |-> -4049,
   EPERM |-> -4048, EPIPE |-> -4047, EPROTO |-> -4046,
   EPROTONOSUPPORT |-> -4045, EPROTOTYPE |-> -4044, EROFS |-> -4043,
   ESHUTDOWN |-> -4042, ESPIPE |-> -4041]

UV__Fallback_3 ==
  [ESRCH |-> -4040, ETIMEDOUT |-> -4039, ETXTBSY |-> -4038, EXDEV |-> -4037,
   EFBIG |-> -4036, ENOPROTOOPT |-> -4035, ERANGE |-> -4034, ENXIO |-> -4033,
   EMLINK |-> -4032, EHOSTDOWN |-> -4031, EREMOTEIO |-> -4030,
   ENOTTY |-> -4029, EFTYPE |-> -4028, EILSEQ |-> -4027, EOVERFLOW |-> -4026,
   ESOCKTNOSUPPORT |-> -4025]

\* The names that have a text in the table of the backend; a text is known by
\* the name it belongs to.
BUV_ERRNO_MAP ==
  {"E2BIG", "EACCES", "EADDRINUSE", "EADDRNOTAVAIL", "EAFNOSUPPORT", "EAGAIN",
   "EAI_ADDRFAMILY", "EAI_AGAIN", "EAI_BADFLAGS", "EAI_BADHINTS",
   "EAI_CANCELED", "EAI_FAIL", "EAI_FAMILY", "EAI_MEMORY", "EAI_NODATA",
   "EAI_NONAME", "EAI_OVERFLOW", "EAI_PROTOCOL", "EAI_SERVICE", "EAI_SOCKTYPE",
   "EALREADY", "EBADF", "EBUSY", "ECANCELED", "ECHARSET", "ECONNABORTED",
   "ECONNREFUSED", "ECONNRESET", "EDESTADDRREQ", "EEXIST", "EFAULT", "EFBIG",
   "EHOSTUNREACH", "EINTR", "EINVAL", "EIO", "EISCONN", "EISDIR", "ELOOP",
   "EMFILE", "EMSGSIZE", "ENAMETOOLONG", "ENETDOWN", "ENETUNREACH", "ENFILE",
   "ENOBUFS", "ENODEV", "ENOENT", "ENOMEM", "ENONET", "ENOPROTOOPT", "ENOSPC",
   "ENOSYS", "ENOTCONN", "ENOTDIR", "ENOTEMPTY", "ENOTSOCK", "ENOTSUP",
   "EOVERFLOW", "EPERM", "EPIPE", "EPROTO", "EPROTONOSUPPORT", "EPROTOTYPE",
   "ERANGE", "EROFS", "ESHUTDOWN", "ESPIPE", "ESRCH", "ETIMEDOUT", "ETXTBSY",
   "EXDEV", "UNKNOWN", "EOF", "ENXIO", "EMLINK", "EHOSTDOWN", "EREMOTEIO",
   "ENOTTY", "EFTYPE", "EILSEQ", "ESOCKTNOSUPPORT"}

SC_Codes == [SC_ENOMEM |-> 3193, SC_EURIPARSE |-> 3194, SC_EINVPROTO |-> 3195]

-----------------------------------------------------------------------------
(* The number of a name.                                                   *)

\* The names whose numbers depend on the platform.
PlatformNames == UV_ERRNO_MAP \ DOMAIN UV__Fixed

ASSUME PlatformsAssumption ==
  /\ \A p \in Platforms :
       /\ p.kind \in {"linux", "bsd", "negative", "windows"}
       /\ PlatformNames \ p.missing \subseteq
            (IF p.kind = "negative" THEN DOMAIN negative ELSE DOMAIN errno)
  /\ \A m, n \in DOMAIN errno : errno[m] = errno[n] => m = n
  /\ \A m, n \in DOMAIN negative : negative[m] = negative[n] => m = n
  /\ \A n \in DOMAIN errno : errno[n] \in 1 .. 2999
  /\ \A n \in DOMAIN negative :
       negative[n] \in Int /\ negative[n] < 0 /\ negative[n] \notin -4095 .. -3000
  /\ (\E p \in Platforms : p.kind = "bsd") =>
       \A n \in DOMAIN errno : errno[n] = 64 => n = "EHOSTDOWN"

Fallback(n) ==
  CASE n \in DOMAIN UV__Fallback_1 -> UV__Fallback_1[n]
    [] n \in DOMAIN UV__Fallback_2 -> UV__Fallback_2[n]
    [] n \in DOMAIN UV__Fallback_3 -> UV__Fallback_3[n]

\* External: the macro n of <errno.h>, and whether it is there.
Macro(n) == IF platform.kind = "negative" THEN negative[n] ELSE errno[n]
IsDefined(n) == n \notin platform.missing

UV__ERR(x) == IF platform.kind = "negative" THEN x ELSE - x

\* Mutant: another number for EHOSTDOWN on BSD.
Mutant_Hidden(n) ==
  IF n = "EHOSTDOWN" /\ platform.kind = "bsd" THEN - 63 ELSE Fallback(n)

\* A name that <errno.h> does not show; BSD hides EHOSTDOWN.
Hidden(n) ==
  IF n = "EHOSTDOWN" /\ platform.kind = "bsd" THEN - 64 ELSE Fallback(n)

\* The enumerators UV_E2BIG, ... of uv_errno_t.
UV(n) ==
  CASE n \in DOMAIN UV__Fixed -> UV__Fixed[n]
    [] n \notin DOMAIN UV__Fixed /\ IsDefined(n) /\ platform.kind # "windows" ->
         UV__ERR(Macro(n))
    [] OTHER -> Hidden(n)

UV_ERRNO_MAX == UV__Fixed["EOF"] - 1

-----------------------------------------------------------------------------
(* The text of a number.                                                   *)

\* A switch with a case for every name of BUV_ERRNO_MAP.
buv_strerror(code) ==
  IF \E n \in BUV_ERRNO_MAP : UV(n) = code
    THEN CHOOSE n \in BUV_ERRNO_MAP : UV(n) = code
    ELSE "unknown error code"

sc_strerror(code) ==
  IF \E n \in DOMAIN SC_Codes : SC_Codes[n] = code
    THEN CHOOSE n \in DOMAIN SC_Codes : SC_Codes[n] = code
    ELSE buv_strerror(code)

Codes == Range(SC_Codes) \cup {UV(n) : n \in UV_ERRNO_MAP} \cup OtherCodes

ErrStart(p) == platform = p /\ asked = 0 /\ text = "unknown error code"

ErrInit == \E p \in Platforms : ErrStart(p)

\* One call of sc_strerror.
Ask(code) == asked = 0 /\ asked' = code /\ text' = sc_strerror(code) /\ UNCHANGED platform

ErrNext == \E code \in Codes : Ask(code)

ErrSpec == ErrInit /\ [][ErrNext]_errVars

-----------------------------------------------------------------------------

\* No two names of libuv have one number, whatever names the platform lacks:
\* the cases of buv_strerror differ, as C demands, and a number tells the
\* application one error.  All numbers are errors (negative), none is a code
\* of src/include/sc/errcode.h, and they are above UV_ERRNO_MAX, except where
\* <errno.h> itself has negative numbers, which may lie anywhere below it.
DistinctCodes ==
  LET uv == {UV(n) : n \in UV_ERRNO_MAP}
  IN /\ Cardinality(uv) = Cardinality(UV_ERRNO_MAP)
     /\ \A c \in uv : c < 0 /\ (platform.kind # "negative" => UV_ERRNO_MAX < c)
     /\ uv \cap Range(SC_Codes) = {}

\* sc_strerror has a text for every error libuv may report and every error of
\* the library, that error's own, and the last resort for no other number.
RightText ==
  /\ \A n \in DOMAIN SC_Codes : asked = SC_Codes[n] => text = n
  /\ \A n \in UV_ERRNO_MAP : asked = UV(n) => text = n
  /\ text = "unknown error code" <=>
       asked \notin Range(SC_Codes) \cup {UV(n) : n \in UV_ERRNO_MAP}

\* The two together: an error code tells the application which error it was.
ErrorsTold == DistinctCodes /\ RightText
=============================================================================
