----------------------------- MODULE MCMigrations -----------------------------
(* Migrations for TLC: two instances that start on a fresh database while      *)
(* somebody asks for the status, two operators who call Up, one who also calls *)
(* Down, and two instances beside an operator.                                 *)
EXTENDS Migrations

Setup(instances, operators, kinds) ==
    [instances |-> instances, operators |-> operators, kinds |-> kinds]

MCSetups ==
    {Setup(Instance, {"p"}, {"status"}), Setup({}, Operator, {"up"}),
     Setup({}, {"p"}, {"up", "down", "status"}), Setup(Instance, {"p"}, {"up"})}
===============================================================================
