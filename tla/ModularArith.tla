---------------------------- MODULE ModularArith ----------------------------
(***************************************************************************)
(* The arithmetic of tom256 below the points: scalars and field elements   *)
(* are registers of a fixed width, and Modular computes on them modulo the *)
(* order or the prime, which fill almost the whole width                   *)
(* (arithmetic/modular.rs, scalar.rs, field.rs).  Reading a register from  *)
(* bytes does not reduce it.                                               *)
(***************************************************************************)
EXTENDS Integers

CONSTANTS Width,    \* bits of a register: 256 in the code
          Modulus,  \* ORDER or PRIME_MODULUS
          Registers,
          Unknown   \* the residue of a register that an operation got wrong

ASSUME ModularAssumption == /\ Width \in Nat \ {0} /\ Modulus \in 3..(2^Width - 1)
                            /\ \A d \in 2..(Modulus - 1) : Modulus % d # 0

VARIABLES regs,  \* what each register holds
          means, \* history: the residue it should hold, or Unknown
          read,  \* history: the registers last written by deserialize
          loop   \* exp_mod_u256: [to, base, exponent, r, q, k], or <<>>

vars == <<regs, means, read, loop>>

U256 == 0..(2^Width - 1)
Wrapped(n) == n % 2^Width

\* The multiplication of the residues, by repeated squaring's definition.
Powers(b) == LET pow[k \in Nat] == IF k = 0 THEN 1 % Modulus ELSE (pow[k - 1] * b) % Modulus
             IN  pow
PowMod(b, e) == Powers(b)[e]

\* mod_u256, by Modular::new.
New(n) == IF n < Modulus THEN n ELSE n % Modulus

\* add_mod, sub_mod and neg_mod of crypto-bigint: the modulus is taken off or
\* put back once, in a register.
AddModNoCarry(a, b) == IF Wrapped(a + b) >= Modulus THEN Wrapped(a + b) - Modulus ELSE Wrapped(a + b)
AddMod(a, b) == IF a + b >= Modulus THEN Wrapped(a + b - Modulus) ELSE a + b
SubMod(a, b) == IF a >= b THEN a - b ELSE Wrapped(a - b + Modulus)
NegMod(a)    == IF a = 0 THEN 0 ELSE Wrapped(Modulus - a)
MulMod(a, b) == (a * b) % Modulus

\* The operators of Scalar and of FieldElement.
Apply(op, a, b) == CASE op = "add" -> New(AddMod(a, b))
                     [] op = "sub" -> New(SubMod(a, b))
                     [] op = "neg" -> New(NegMod(a))
                     [] op = "mul" -> New(MulMod(a, b))

\* Whether the operation stands operands that were not reduced.
Stands(op, a, b) == CASE op = "add" -> a < Modulus \/ b < Modulus
                      [] op = "sub" -> b < Modulus \/ a >= b
                      [] op = "neg" -> a <= Modulus
                      [] op = "mul" -> TRUE

Residue(op, a, b) == CASE op = "add" -> (a + b) % Modulus
                       [] op = "sub" -> (a - b) % Modulus
                       [] op = "neg" -> (-a) % Modulus
                       [] op = "mul" -> (a * b) % Modulus

Init == /\ regs = [r \in Registers |-> 0] /\ means = [r \in Registers |-> 0]
        /\ read = {} /\ loop = <<>>

Write(r, value, meaning) == /\ regs' = [regs EXCEPT ![r] = value]
                            /\ means' = [means EXCEPT ![r] = meaning]

\* Scalar::new, FieldElement::new, also of a value of the other type
\* (to_cycle_scalar), and random_mod_u256, which draws until it is below.
NewValue(r, n) == /\ loop = <<>> /\ Write(r, New(n), n % Modulus)
                  /\ read' = read \ {r} /\ UNCHANGED loop
Random(r, drawn) == /\ loop = <<>> /\ drawn < Modulus /\ Write(r, New(drawn), drawn)
                    /\ read' = read \ {r} /\ UNCHANGED loop

\* BorshDeserialize: as many bits as a register has, as they are.
Deserialize(r, n) == /\ loop = <<>> /\ Write(r, n, n % Modulus)
                     /\ read' = read \cup {r} /\ UNCHANGED loop

\* The meanings of operands, with Unknown if one is or the operation goes wrong.
Meaning(op, a, b) == IF Unknown \in {means[a], means[b]} \/ ~Stands(op, regs[a], regs[b])
                       THEN Unknown
                       ELSE Residue(op, means[a], means[b])

Operate(op, a, b, to) ==
  /\ loop = <<>>
  /\ Write(to, Apply(op, regs[a], regs[b]), Meaning(op, a, b))
  /\ read' = read \ {to}
  /\ UNCHANGED loop

\* exp_mod_u256 begins: pow takes any exponent, inverse takes modulus - 2.
ExpStart(base, e, to) == loop' = [to |-> to, base |-> base, exponent |-> e, r |-> 1, q |-> regs[base], k |-> e]
Pow(a, e, to) == /\ loop = <<>> /\ ExpStart(a, regs[e], to) /\ UNCHANGED <<regs, means, read>>
InverseOf(a, to) == /\ loop = <<>> /\ ExpStart(a, Modulus - 2, to) /\ UNCHANGED <<regs, means, read>>

ExpTurnHalved(l) == [l EXCEPT !.r = IF l.k % 2 # 0 THEN MulMod(l.r, MulMod(l.q, l.q)) ELSE l.r,
                              !.q = MulMod(l.q, l.q), !.k = l.k \div 2]
ExpTurn(l) == [l EXCEPT !.r = IF l.k % 2 # 0 THEN MulMod(l.r, l.q) ELSE l.r,
                        !.q = MulMod(l.q, l.q), !.k = l.k \div 2]

Exponentiate == /\ loop # <<>> /\ loop.k > 0
                /\ loop' = ExpTurn(loop) /\ UNCHANGED <<regs, means, read>>
ExpReturn == /\ loop # <<>> /\ loop.k = 0
             /\ Write(loop.to, New(loop.r),
                      IF means[loop.base] = Unknown THEN Unknown
                      ELSE PowMod(means[loop.base], loop.exponent))
             /\ read' = read \ {loop.to} /\ loop' = <<>>

Next ==
  \/ \E r \in Registers, n \in U256 : NewValue(r, n) \/ Random(r, n) \/ Deserialize(r, n)
  \/ \E op \in {"add", "sub", "neg", "mul"}, a, b, to \in Registers : Operate(op, a, b, to)
  \/ \E a, b, to \in Registers : Pow(a, b, to) \/ InverseOf(a, to)
  \/ Exponentiate \/ ExpReturn

Spec == Init /\ [][Next]_vars

-----------------------------------------------------------------------------
\* What the registers hold and what they should; the locals of exp_mod_u256 are
\* reduced, but for a base that was not (modular.rs:78-91).
Loops == [to : Registers, base : Registers, exponent : U256,
          r : 0 .. Modulus - 1, q : U256, k : Nat]
TypeOK == /\ regs \in [Registers -> U256]
          /\ means \in [Registers -> (0 .. Modulus - 1) \cup {Unknown}]
          /\ read \subseteq Registers
          /\ loop # <<>> => loop \in Loops

\* However values are computed one from another, an operation gives the residue
\* that the integers modulo the modulus give, although the modulus leaves no
\* spare bit; an unreduced operand, which only deserialize makes, is harmless
\* but as a subtrahend, negated, or in both summands.  What is not read from
\* bytes is reduced, so that == and the printed digits decide equality
\* (modular.rs:16-39, scalar.rs:81-98).
ResiduesAgree == \A r \in Registers : /\ means[r] # Unknown => regs[r] % Modulus = means[r]
                                      /\ r \notin read => regs[r] < Modulus

\* At every turn of exp_mod_u256 the power still to be taken is the one asked
\* for, also of a base that was not reduced (modular.rs:78-91).
PowerKept ==
  loop # <<>> =>
    (loop.r * PowMod(loop.q, loop.k)) % Modulus = PowMod(regs[loop.base], loop.exponent)

\* It is, and for a nonzero base the exponent modulus - 2 gives the inverse
\* (modular.rs:32-39).
PowersAgree ==
  /\ PowerKept
  /\ loop # <<>> /\ loop.exponent = Modulus - 2 /\ loop.k = 0 /\ regs[loop.base] % Modulus # 0
       => (loop.r * regs[loop.base]) % Modulus = 1
=============================================================================
