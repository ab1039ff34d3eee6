-------------------------- MODULE BessPermissions --------------------------
(***************************************************************************)
(* The vocabulary of access control: the permissions and roles that        *)
(* scripts/seed_rbac_flow.py seeds, what it documents about the endpoints, *)
(* and the guard each endpoint of the API really carries in its router     *)
(* (app/domains/*/router.py).  An endpoint is named by its function.       *)
(***************************************************************************)

PERMISSIONS ==
    {"bess:create", "bess:read", "bess:delete", "bess:transition", "checklist:read",
     "checklist:write", "engineer:assign", "engineer:read", "shipment:manage",
     "shipment:read", "master:write", "master:read", "report:view", "user:manage",
     "role:manage"}

SEEDED_ROLES ==
    {"SUPER_ADMIN", "FACTORY_ADMIN", "LOGISTICS_OPS", "SITE_ENGINEER",
     "QA_INSPECTOR", "CUSTOMER"}

ROLE_PERMISSIONS ==
    ({"SUPER_ADMIN"} \X PERMISSIONS)
    \cup ({"FACTORY_ADMIN"} \X {"bess:create", "bess:read", "shipment:manage",
                                "master:write", "master:read"})
    \cup ({"LOGISTICS_OPS"} \X {"shipment:manage", "shipment:read", "bess:read",
                                "bess:transition"})
    \cup ({"SITE_ENGINEER"} \X {"bess:read", "checklist:read", "checklist:write",
                                "bess:transition", "engineer:read"})
    \cup ({"QA_INSPECTOR"} \X {"checklist:read", "bess:read", "report:view"})
    \cup ({"CUSTOMER"} \X {"bess:read", "report:view"})

----------------------------------------------------------------------------
(* The routers: <<endpoint, guard>>.  A guard is the permission or the     *)
(* role that is asked for, "login" if any user will do, or "public".       *)

AuthRoutes == ({"register", "login", "refresh"} \X {"public"}) \cup {<<"me", "login">>}

\* get_users asks for a permission, the others for the role.
RbacRoutes ==
    {<<"get_users", "user:manage">>}
    \cup ({"get_roles", "create_role_endpoint", "assign_role_endpoint",
           "remove_role_endpoint"} \X {"SUPER_ADMIN"})

MasterRoutes ==
    ({"get_countries", "get_states", "get_cities", "get_warehouses", "get_sites",
      "get_product_models"} \X {"master:read"})
    \cup ({"create_country", "create_state", "create_city", "create_warehouse",
           "create_site", "create_product_model"} \X {"master:write"})

RegistrationRoutes ==
    {"create_unit", "parse_qr_payload", "register_unit_from_qr",
     "register_unit_from_photo"} \X {"bess:create"}

\* update_unit asks for the permission to create.
UnitRoutes ==
    ({"add_certificate", "transition_unit"} \X {"bess:transition"})
    \cup ({"get_certificates", "list_units", "list_shipments_for_bess", "get_unit",
           "get_qrcode", "history"} \X {"bess:read"})
    \cup ({"scan", "public_scan"} \X {"public"})
    \cup {<<"update_unit", "bess:create">>, <<"delete_unit", "bess:delete">>}

\* The public hand-over page is reached with the token of the QR code.
ChecklistRoutes ==
    ({"get_checklist", "validate_checklist", "download_checklist_pdf",
      "download_handover_pdf", "handover_document_data"} \X {"checklist:read"})
    \cup {<<"patch_checklist", "checklist:write">>,
          <<"handover_document_public_data", "public">>}

ShipmentRoutes ==
    ({"create_shipment_endpoint", "assign_unit_endpoint", "bulk_assign_units_endpoint",
      "assign_shipment_warehouse_endpoint", "assign_shipment_site_endpoint",
      "upload_shipment_document_endpoint", "update_status_endpoint"}
        \X {"shipment:manage"})
    \cup ({"list_shipments_endpoint", "get_shipment_detail_endpoint",
           "list_shipment_units_endpoint", "list_shipment_documents_endpoint"}
            \X {"shipment:read"})

CommissioningRoutesForReaders ==
    {"create_record_endpoint", "list_records_endpoint"} \X {"bess:read"}

CommissioningRoutes ==
    {<<"create_record_endpoint", "bess:transition">>,
     <<"list_records_endpoint", "bess:read">>}

\* Whoever may read assignments may accept, decline and complete them.
EngineerRoutes ==
    ({"my_dashboard_endpoint", "engineers_overview_endpoint",
      "list_available_engineers_endpoint", "my_assignments",
      "list_assignments_endpoint", "accept_assignment_endpoint",
      "decline_assignment_endpoint", "complete_assignment_endpoint"}
        \X {"engineer:read"})
    \cup ({"create_engineer_endpoint", "list_candidate_users_endpoint"}
            \X {"user:manage"})
    \cup {<<"manual_assign_endpoint", "engineer:assign">>}

ReportRoutes == {<<"get_reports", "report:view">>}

UploadRoutes ==
    {<<"upload_checklist_photo_endpoint", "checklist:write">>,
     <<"upload_document_endpoint", "login">>}

\* What app.include_router puts together.
Routes ==
    AuthRoutes \cup RbacRoutes \cup MasterRoutes \cup RegistrationRoutes
    \cup UnitRoutes \cup ChecklistRoutes \cup ShipmentRoutes
    \cup CommissioningRoutes \cup EngineerRoutes \cup ReportRoutes \cup UploadRoutes

----------------------------------------------------------------------------
(* What the seed script documents, and prints, of the endpoints.           *)

PERMISSION_TO_ENDPOINTS ==
    ({"bess:create"} \X {"create_unit", "update_unit"})
    \cup ({"bess:read"} \X {"list_units", "get_unit", "get_qrcode", "history",
                            "list_records_endpoint"})
    \cup {<<"bess:delete", "delete_unit">>}
    \cup ({"bess:transition"} \X {"transition_unit", "create_record_endpoint"})
    \cup ({"checklist:read"} \X {"get_checklist", "validate_checklist"})
    \cup {<<"checklist:write", "patch_checklist">>,
          <<"engineer:assign", "manual_assign_endpoint">>}
    \cup ({"engineer:read"} \X {"list_available_engineers_endpoint", "my_assignments",
                                "list_assignments_endpoint", "accept_assignment_endpoint",
                                "decline_assignment_endpoint",
                                "complete_assignment_endpoint"})
    \cup ({"shipment:manage"} \X {"create_shipment_endpoint", "assign_unit_endpoint",
                                  "update_status_endpoint"})
    \cup {<<"shipment:read", "list_shipments_endpoint">>}
    \cup ({"master:write"} \X {"create_country", "create_city", "create_warehouse",
                               "create_product_model"})
    \cup ({"master:read"} \X {"get_countries", "get_cities", "get_warehouses",
                              "get_product_models"})
    \cup {<<"report:view", "get_reports">>, <<"user:manage", "create_engineer_endpoint">>}

ROLE_ONLY_ENDPOINTS ==
    {"SUPER_ADMIN"} \X {"get_roles", "create_role_endpoint", "assign_role_endpoint",
                        "remove_role_endpoint"}

build_role_endpoint_map ==
    [role \in SEEDED_ROLES |->
        {pe[2] : pe \in {x \in PERMISSION_TO_ENDPOINTS : <<role, x[1]>> \in ROLE_PERMISSIONS}}
        \cup {re[2] : re \in {x \in ROLE_ONLY_ENDPOINTS : x[1] = role}}]
=============================================================================
